---- MODULE Spec2Model ----
(***************************************************************************)
(* A model of the MC static analyzer: the CFG builder (cfg.py), the CFG    *)
(* analyses (cfg_analysis.py) and the pipeline that runs them              *)
(* (pipeline.py, program_semantic.py).                                     *)
(*                                                                         *)
(* Python objects are records; an object reference is an index into the    *)
(* sequence that holds the objects (bb for BasicBlock, edges for CFGEdge). *)
(* Python's None is the record None, so that it can be compared with AST   *)
(* records.                                                                *)
(***************************************************************************)
EXTENDS Integers, Sequences, FiniteSets, TLC

\* ------------------------------------------------------------------------
\* Bounds of the model
\* ------------------------------------------------------------------------

\* Largest number of statement nodes in a generated function body.
MaxNodes == 3

\* ------------------------------------------------------------------------
\* ast_nodes.py
\* ------------------------------------------------------------------------

None == [k |-> "None"]
\* Python's True and False where a value may also be None.
True == [k |-> "bool", value |-> 1]
False == [k |-> "bool", value |-> 0]

\* Literal.value is a Python int or bool. bool is a subclass of int in
\* Python (True == 1, False == 0): py is the Python class of the value and
\* value its numeric value.
Literal(py, value) == [k |-> "Literal", py |-> py, value |-> value]
VarExpr(name) == [k |-> "VarExpr", name |-> name]
UnaryExpr(op, right) == [k |-> "UnaryExpr", op |-> op, right |-> right]
BinaryExpr(left, op, right) ==
    [k |-> "BinaryExpr", left |-> left, op |-> op, right |-> right]
CallExpr(fname, arguments) ==
    [k |-> "CallExpr", fname |-> fname, arguments |-> arguments]

Block(statements) == [k |-> "Block", statements |-> statements]
VarDecl(type, name, value) ==
    [k |-> "VarDecl", type |-> type, name |-> name, value |-> value]
Assign(name, value) == [k |-> "Assign", name |-> name, value |-> value]
IfStmt(condition, then_body, else_body) ==
    [k |-> "IfStmt", condition |-> condition, then_body |-> then_body,
     else_body |-> else_body]
WhileStmt(condition, body) ==
    [k |-> "WhileStmt", condition |-> condition, body |-> body]
ReturnStmt(value) == [k |-> "ReturnStmt", value |-> value]
PrintStmt(value) == [k |-> "PrintStmt", value |-> value]

Param(type, name) == [k |-> "Param", type |-> type, name |-> name]
FunctionDef(name, params, return_type, body) ==
    [k |-> "FunctionDef", name |-> name, params |-> params,
     return_type |-> return_type, body |-> body]

isinstance(node, cls) == node.k = cls

\* ------------------------------------------------------------------------
\* Inputs: the statement lists the parser can produce (parser.py,
\* _parse_block / _parse_statement), by number of statement nodes.
\* simple is the set of VarDecl / Assign / PrintStmt / ReturnStmt
\* statements a family draws from, and conds.IfStmt and conds.WhileStmt the
\* sets of conditions of its if and its while statements.
\* ------------------------------------------------------------------------

\* Single statements with exactly n statement nodes (n >= 1); lists[j + 1]
\* is the set of the statement lists with exactly j nodes, for j < n.
Stmts(simple, conds, nested, lists, n) ==
    (IF n = 1 THEN simple ELSE {})
    \cup { IfStmt(c, Block(t), None) : c \in conds.IfStmt, t \in lists[n] }
    \cup { WhileStmt(c, Block(b)) : c \in conds.WhileStmt, b \in lists[n] }
    \cup UNION { { IfStmt(c, Block(t), Block(e)) :
                     c \in conds.IfStmt,
                     t \in lists[j + 1],
                     e \in lists[n - j] }
                 : j \in 0..(n - 1) }
    \cup (IF nested THEN { Block(l) : l \in lists[n] } ELSE {})

RECURSIVE StmtLists(_, _, _, _)
\* The statement lists by number of statement nodes: the sequence whose
\* element j + 1 is the set of the lists with exactly j nodes, for j <= n.
StmtLists(simple, conds, nested, n) ==
    IF n = 0 THEN << {<<>>} >>
    ELSE LET lists == StmtLists(simple, conds, nested, n - 1)
         IN  Append(lists,
                    UNION { { <<s>> \o l :
                                s \in Stmts(simple, conds, nested, lists, j),
                                l \in lists[n - j + 1] }
                            : j \in 1..n })

\* Function bodies with at most n statement nodes.
Bodies(simple, conds, nested, n) ==
    LET lists == StmtLists(simple, conds, nested, n)
    IN  { Block(l) : l \in UNION { lists[j] : j \in 1..(n + 1) } }

\* ------------------------------------------------------------------------
\* State
\* ------------------------------------------------------------------------

VARIABLES
    input,     \* the analysed source: what lexing and parsing it gives
    pc,        \* position of analyze_source
    result,    \* AnalysisResult.errors
    fnIdx,     \* index of fn in program.functions (the for loop)
    cfg,       \* ControlFlowGraph: entry, exit, blocks
    bb,        \* the BasicBlock objects, by identity
    edges,     \* the CFGEdge objects, by identity
    block_id,  \* CFGBuilder.block_id
    stack,     \* the pending calls of CFGBuilder._build_block
    current,   \* the builder's current block (0: None)
    da,        \* CFGDefiniteAssignmentAnalyzer: params, IN, OUT, errors
    ds,        \* CFGDeadStoreAnalyzer: IN, OUT, dead_stores
    za,        \* CFGZeroAnalysis: IN, OUT, errors
    test,      \* run_single_test: expected, actual, missing, unexpected
    lexer      \* Lexer: source, pos, line, column, and tokenize's tokens

vars == <<input, pc, result, fnIdx, cfg, bb, edges, block_id, stack, current,
          da, ds, za, test, lexer>>

builderVars == <<cfg, bb, edges, block_id, stack, current>>
analysisVars == <<da, ds, za>>

\* The function the loop of analyze_source is at.
fn == input.functions[fnIdx]

\* ------------------------------------------------------------------------
\* cfg.py: BasicBlock, ControlFlowGraph, CFGEdge
\* ------------------------------------------------------------------------

BasicBlock(name) ==
    [name |-> name, statements |-> <<>>, out_edges |-> <<>>, in_edges |-> <<>>]

ControlFlowGraph == [entry |-> 0, exit |-> 0, blocks |-> <<>>]

CFGEdge(src, dst, cond, assume_true) ==
    [src |-> src, dst |-> dst, cond |-> cond, assume_true |-> assume_true]

\* The builder's object graph, passed through the helpers below.
Graph == [cfg |-> cfg, bb |-> bb, edges |-> edges, block_id |-> block_id]

\* BasicBlock.add_out_edge / add_in_edge
add_out_edge(blocks, b, e) ==
    [blocks EXCEPT ![b].out_edges = Append(@, e)]
add_in_edge(blocks, b, e) ==
    [blocks EXCEPT ![b].in_edges = Append(@, e)]

\* BasicBlock.predecessors / successors: lists, with repetitions.
predecessors(g, b) ==
    [i \in 1..Len(g.bb[b].in_edges) |-> g.edges[g.bb[b].in_edges[i]].src]
successors(g, b) ==
    [i \in 1..Len(g.bb[b].out_edges) |-> g.edges[g.bb[b].out_edges[i]].dst]

\* ControlFlowGraph.new_block: the new object is appended to cfg.blocks.
new_block(g, name) ==
    [g EXCEPT !.bb = Append(@, BasicBlock(name)),
              !.cfg.blocks = Append(@, Len(g.bb) + 1)]

\* CFGBuilder._new_block; the block created is LastBlock of the result.
_new_block(g, prefix) ==
    [new_block(g, <<prefix, g.block_id>>) EXCEPT !.block_id = g.block_id + 1]

LastBlock(g) == Len(g.bb)

\* A _connect that forgets dst.add_in_edge(edge).
_connect_without_in_edge(g, src, dst, cond, assume_true) ==
    LET edge == Len(g.edges) + 1
    IN  [g EXCEPT !.edges = Append(@, CFGEdge(src, dst, cond, assume_true)),
                  !.bb = add_out_edge(@, src, edge)]

\* CFGBuilder._connect
_connect(g, src, dst, cond, assume_true) ==
    LET edge == Len(g.edges) + 1
    IN  [g EXCEPT !.edges = Append(@, CFGEdge(src, dst, cond, assume_true)),
                  !.bb = add_in_edge(add_out_edge(@, src, edge), dst, edge)]

\* current.statements.append(stmt)
append_stmt(g, b, stmt) ==
    [g EXCEPT !.bb[b].statements = Append(@, stmt)]

SetGraph(g) ==
    /\ cfg' = g.cfg
    /\ bb' = g.bb
    /\ edges' = g.edges
    /\ block_id' = g.block_id

\* ------------------------------------------------------------------------
\* cfg.py: CFGBuilder.  The recursion of _build_block / _build_stmt is an
\* explicit stack: the top frame is the running call of _build_block, stmts
\* the statements its loop has not reached yet, and k names the caller that
\* continues when the call returns.  current is the loop's current block,
\* and the call's return value once it has ended.
\* ------------------------------------------------------------------------

Frame(k, stmts) ==
    [k |-> k, stmts |-> stmts, stmt |-> None, current |-> 0, join_block |-> 0,
     end_then |-> 0, cond_block |-> 0, after_block |-> 0]

Top == stack[1]
stmt == Head(Top.stmts)

\* The loop of _build_block is at a statement.
AtStmt == pc = "build" /\ stack # <<>> /\ current # 0 /\ Top.stmts # <<>>
\* The call of _build_block on top of the stack returns current.
Returns(k) ==
    /\ pc = "build" /\ stack # <<>>
    /\ (current = 0 \/ Top.stmts = <<>>)
    /\ Top.k = k

\* The frame of the running loop, moved past its current statement.
Advanced == [Top EXCEPT !.stmts = Tail(@)]

\* CFGBuilder.build, up to the call of _build_block(body, entry).
build ==
    /\ pc = "build_start"
    /\ LET g0 == [cfg |-> ControlFlowGraph, bb |-> <<>>, edges |-> <<>>,
                  block_id |-> 0]
           g1 == _new_block(g0, "entry")
           entry == LastBlock(g1)
           g2 == [g1 EXCEPT !.cfg.entry = entry]
           g3 == _new_block(g2, "exit")
           exit_block == LastBlock(g3)
           g4 == [g3 EXCEPT !.cfg.exit = exit_block]
       IN  /\ SetGraph(g4)
           /\ stack' = <<Frame("build", fn.body.statements)>>
           /\ current' = entry
    /\ pc' = "build"
    /\ UNCHANGED <<input, lexer, test, result, fnIdx, analysisVars>>

\* CFGBuilder.build, after _build_block(body, entry) returned end.
build_end ==
    /\ Returns("build")
    /\ LET end == current
       IN  SetGraph(IF end # 0 THEN _connect(Graph, end, cfg.exit, None, None)
                    ELSE Graph)
    /\ stack' = Tail(stack)
    /\ current' = 0
    /\ pc' = "return_analysis"
    /\ UNCHANGED <<input, lexer, test, result, fnIdx, analysisVars>>

\* _build_stmt on VarDecl / Assign / PrintStmt: _build_simple.
_build_simple ==
    /\ AtStmt
    /\ \/ isinstance(stmt, "VarDecl")
       \/ isinstance(stmt, "Assign")
       \/ isinstance(stmt, "PrintStmt")
    /\ SetGraph(append_stmt(Graph, current, stmt))
    /\ stack' = <<Advanced>> \o Tail(stack)
    /\ UNCHANGED <<current, pc, input, lexer, test, result, fnIdx, analysisVars>>

\* A _build_return that returns current: the loop of _build_block goes on
\* in the block of the return.
_build_return_returning_current ==
    /\ AtStmt
    /\ isinstance(stmt, "ReturnStmt")
    /\ SetGraph(_connect(append_stmt(Graph, current, stmt),
                         current, cfg.exit, None, None))
    /\ stack' = <<Advanced>> \o Tail(stack)
    /\ UNCHANGED <<current, pc, input, lexer, test, result, fnIdx, analysisVars>>

\* _build_stmt on ReturnStmt: _build_return.  It returns None, which ends
\* the loop of the calling _build_block.
_build_return ==
    /\ AtStmt
    /\ isinstance(stmt, "ReturnStmt")
    /\ SetGraph(_connect(append_stmt(Graph, current, stmt),
                         current, cfg.exit, None, None))
    /\ current' = 0
    /\ stack' = <<Advanced>> \o Tail(stack)
    /\ UNCHANGED <<pc, input, lexer, test, result, fnIdx, analysisVars>>

\* _build_stmt on IfStmt: _build_if, up to the call of
\* _build_block(stmt.then_body, then_block).
_build_if ==
    /\ AtStmt
    /\ isinstance(stmt, "IfStmt")
    /\ LET g1 == append_stmt(Graph, current, stmt)
           g2 == _new_block(g1, "if_then")
           then_block == LastBlock(g2)
           g3 == _new_block(g2, "if_join")
           join_block == LastBlock(g3)
           g4 == _connect(g3, current, then_block, stmt.condition, True)
       IN  /\ SetGraph(g4)
           /\ stack' = <<[Frame("if_then", stmt.then_body.statements) EXCEPT
                            !.stmt = stmt, !.current = current,
                            !.join_block = join_block],
                         Advanced>> \o Tail(stack)
           /\ current' = then_block
    /\ UNCHANGED <<pc, input, lexer, test, result, fnIdx, analysisVars>>

\* A _build_if that gives an if without else an empty else block too.
_build_if_then_end_always_else ==
    /\ Returns("if_then")
    /\ LET end_then == current
           f == Top
           g1 == _new_block(Graph, "if_else")
           else_block == LastBlock(g1)
           g2 == _connect(g1, f.current, else_block, f.stmt.condition, False)
       IN  IF f.stmt.else_body # None
           THEN /\ SetGraph(g2)
                /\ stack' = <<[Frame("if_else", f.stmt.else_body.statements)
                                 EXCEPT !.stmt = f.stmt,
                                        !.current = f.current,
                                        !.join_block = f.join_block,
                                        !.end_then = end_then]>>
                            \o Tail(stack)
                /\ current' = else_block
           ELSE LET g3 == _connect(g2, else_block, f.join_block, None, None)
                    g4 == IF end_then # 0
                          THEN _connect(g3, end_then, f.join_block, None, None)
                          ELSE g3
                IN  /\ SetGraph(g4)
                    /\ stack' = Tail(stack)
                    /\ current' = f.join_block
    /\ UNCHANGED <<pc, input, lexer, test, result, fnIdx, analysisVars>>

\* _build_if, after _build_block(stmt.then_body, then_block) returned
\* end_then: with an else, up to the call of
\* _build_block(stmt.else_body, else_block); without, to the end.
_build_if_then_end ==
    /\ Returns("if_then")
    /\ LET end_then == current
           f == Top
       IN  IF f.stmt.else_body # None
           THEN LET g1 == _new_block(Graph, "if_else")
                    else_block == LastBlock(g1)
                    g2 == _connect(g1, f.current, else_block,
                                   f.stmt.condition, False)
                IN  /\ SetGraph(g2)
                    /\ stack' = <<[Frame("if_else", f.stmt.else_body.statements)
                                     EXCEPT !.stmt = f.stmt,
                                            !.current = f.current,
                                            !.join_block = f.join_block,
                                            !.end_then = end_then]>>
                                \o Tail(stack)
                    /\ current' = else_block
           ELSE LET g1 == _connect(Graph, f.current, f.join_block,
                                   f.stmt.condition, False)
                    g2 == IF end_then # 0
                          THEN _connect(g1, end_then, f.join_block, None, None)
                          ELSE g1
                IN  /\ SetGraph(g2)
                    /\ stack' = Tail(stack)
                    /\ current' = f.join_block
    /\ UNCHANGED <<pc, input, lexer, test, result, fnIdx, analysisVars>>

\* A _build_if that returns the end of the else-arm, None when it returned.
_build_if_else_end_returning_end_else ==
    /\ Returns("if_else")
    /\ LET end_else == current
           f == Top
           g1 == IF f.end_then # 0
                 THEN _connect(Graph, f.end_then, f.join_block, None, None)
                 ELSE Graph
           g2 == IF end_else # 0
                 THEN _connect(g1, end_else, f.join_block, None, None)
                 ELSE g1
       IN  /\ SetGraph(g2)
           /\ stack' = Tail(stack)
           /\ current' = end_else
    /\ UNCHANGED <<pc, input, lexer, test, result, fnIdx, analysisVars>>

\* _build_if, after _build_block(stmt.else_body, else_block) returned
\* end_else.
_build_if_else_end ==
    /\ Returns("if_else")
    /\ LET end_else == current
           f == Top
           g1 == IF f.end_then # 0
                 THEN _connect(Graph, f.end_then, f.join_block, None, None)
                 ELSE Graph
           g2 == IF end_else # 0
                 THEN _connect(g1, end_else, f.join_block, None, None)
                 ELSE g1
       IN  /\ SetGraph(g2)
           /\ stack' = Tail(stack)
           /\ current' = f.join_block
    /\ UNCHANGED <<pc, input, lexer, test, result, fnIdx, analysisVars>>

\* A _build_while whose edge to after_block assumes the condition true.
_build_while_both_true ==
    /\ AtStmt
    /\ isinstance(stmt, "WhileStmt")
    /\ LET g1 == _new_block(Graph, "while_cond")
           cond_block == LastBlock(g1)
           g2 == _new_block(g1, "while_body")
           body_block == LastBlock(g2)
           g3 == _new_block(g2, "while_after")
           after_block == LastBlock(g3)
           g4 == _connect(g3, current, cond_block, None, None)
           g5 == append_stmt(g4, cond_block, stmt)
           g6 == _connect(g5, cond_block, body_block, stmt.condition, True)
           g7 == _connect(g6, cond_block, after_block, stmt.condition, True)
       IN  /\ SetGraph(g7)
           /\ stack' = <<[Frame("while", stmt.body.statements) EXCEPT
                            !.stmt = stmt, !.current = current,
                            !.cond_block = cond_block,
                            !.after_block = after_block],
                         Advanced>> \o Tail(stack)
           /\ current' = body_block
    /\ UNCHANGED <<pc, input, lexer, test, result, fnIdx, analysisVars>>

\* A _build_while that records the WhileStmt in the block the loop is
\* entered from, as _build_if does with the IfStmt.
_build_while_marking_current ==
    /\ AtStmt
    /\ isinstance(stmt, "WhileStmt")
    /\ LET g1 == _new_block(Graph, "while_cond")
           cond_block == LastBlock(g1)
           g2 == _new_block(g1, "while_body")
           body_block == LastBlock(g2)
           g3 == _new_block(g2, "while_after")
           after_block == LastBlock(g3)
           g4 == _connect(g3, current, cond_block, None, None)
           g5 == append_stmt(g4, current, stmt)
           g6 == _connect(g5, cond_block, body_block, stmt.condition, True)
           g7 == _connect(g6, cond_block, after_block, stmt.condition, False)
       IN  /\ SetGraph(g7)
           /\ stack' = <<[Frame("while", stmt.body.statements) EXCEPT
                            !.stmt = stmt, !.current = current,
                            !.cond_block = cond_block,
                            !.after_block = after_block],
                         Advanced>> \o Tail(stack)
           /\ current' = body_block
    /\ UNCHANGED <<pc, input, lexer, test, result, fnIdx, analysisVars>>

\* _build_stmt on WhileStmt: _build_while, up to the call of
\* _build_block(stmt.body, body_block).
_build_while ==
    /\ AtStmt
    /\ isinstance(stmt, "WhileStmt")
    /\ LET g1 == _new_block(Graph, "while_cond")
           cond_block == LastBlock(g1)
           g2 == _new_block(g1, "while_body")
           body_block == LastBlock(g2)
           g3 == _new_block(g2, "while_after")
           after_block == LastBlock(g3)
           g4 == _connect(g3, current, cond_block, None, None)
           g5 == append_stmt(g4, cond_block, stmt)
           g6 == _connect(g5, cond_block, body_block, stmt.condition, True)
           g7 == _connect(g6, cond_block, after_block, stmt.condition, False)
       IN  /\ SetGraph(g7)
           /\ stack' = <<[Frame("while", stmt.body.statements) EXCEPT
                            !.stmt = stmt, !.current = current,
                            !.cond_block = cond_block,
                            !.after_block = after_block],
                         Advanced>> \o Tail(stack)
           /\ current' = body_block
    /\ UNCHANGED <<pc, input, lexer, test, result, fnIdx, analysisVars>>

\* A _build_while that connects the end of the body to the block the loop
\* was entered from.
_build_while_end_back_to_current ==
    /\ Returns("while")
    /\ LET end_body == current
           f == Top
       IN  /\ SetGraph(IF end_body # 0
                       THEN _connect(Graph, end_body, f.current, None, None)
                       ELSE Graph)
           /\ stack' = Tail(stack)
           /\ current' = f.after_block
    /\ UNCHANGED <<pc, input, lexer, test, result, fnIdx, analysisVars>>

\* A _build_while that never connects the end of the body to cond_block.
_build_while_end_without_back_edge ==
    /\ Returns("while")
    /\ stack' = Tail(stack)
    /\ current' = Top.after_block
    /\ UNCHANGED <<cfg, bb, edges, block_id, pc, input, lexer, test, result, fnIdx,
                   analysisVars>>

\* _build_while, after _build_block(stmt.body, body_block) returned
\* end_body.
_build_while_end ==
    /\ Returns("while")
    /\ LET end_body == current
           f == Top
       IN  /\ SetGraph(IF end_body # 0
                       THEN _connect(Graph, end_body, f.cond_block, None, None)
                       ELSE Graph)
           /\ stack' = Tail(stack)
           /\ current' = f.after_block
    /\ UNCHANGED <<pc, input, lexer, test, result, fnIdx, analysisVars>>

\* _build_stmt on a nested Block: _build_block(stmt, current), whose result
\* is the result of _build_stmt.
_build_block ==
    /\ AtStmt
    /\ isinstance(stmt, "Block")
    /\ stack' = <<Frame("block", stmt.statements), Advanced>> \o Tail(stack)
    /\ UNCHANGED <<current, cfg, bb, edges, block_id, pc, input, lexer, test, result,
                   fnIdx, analysisVars>>

_build_block_end ==
    /\ Returns("block")
    /\ stack' = Tail(stack)
    /\ UNCHANGED <<current, cfg, bb, edges, block_id, pc, input, lexer, test, result,
                   fnIdx, analysisVars>>

Builder ==
    \/ build
    \/ _build_simple
    \/ _build_return
    \/ _build_if
    \/ _build_if_then_end
    \/ _build_if_else_end
    \/ _build_while
    \/ _build_while_end
    \/ _build_block
    \/ _build_block_end
    \/ build_end

\* ------------------------------------------------------------------------
\* Helpers on sequences and sets
\* ------------------------------------------------------------------------

Range(s) == { s[i] : i \in 1..Len(s) }

\* The orders in which Python may iterate over the set S.
Orders(S) ==
    { o \in [1..Cardinality(S) -> S] : \A i, j \in 1..Cardinality(S) :
                                          o[i] = o[j] => i = j }

RECURSIVE Concat(_)
\* The concatenation of a sequence of sequences.
Concat(ss) == IF ss = <<>> THEN <<>> ELSE Head(ss) \o Concat(Tail(ss))

RECURSIVE Choices(_)
\* Every concatenation of one sequence out of each set of ss, in order.
Choices(ss) ==
    IF ss = <<>> THEN {<<>>}
    ELSE { h \o t : h \in Head(ss), t \in Choices(Tail(ss)) }

\* semantic.py: SemanticError(message, node).  A node is referred to by
\* where it is: a FunctionDef by its index in program.functions, a
\* statement by the block that holds it and its index there, an expression
\* by its statement and its path in it.
SemanticError(message, node) == [message |-> message, node |-> node]

FnNode(f) == [k |-> "FunctionDef", fn |-> f, block |-> 0, index |-> 0,
              path |-> <<>>]
StmtNode(f, b, i) == [k |-> "Stmt", fn |-> f, block |-> b, index |-> i,
                      path |-> <<>>]
ExprNode(f, b, i, path) == [k |-> "Expr", fn |-> f, block |-> b, index |-> i,
                            path |-> path]
ProgramNode == [k |-> "Program", fn |-> 0, block |-> 0, index |-> 0,
                path |-> <<>>]

\* ------------------------------------------------------------------------
\* cfg_analysis.py: CFGReturnAnalyzer
\* ------------------------------------------------------------------------

_is_return_block(g, block) ==
    IF g.bb[block].statements = <<>> THEN FALSE
    ELSE isinstance(g.bb[block].statements[Len(g.bb[block].statements)],
                    "ReturnStmt")

_find_return_blocks(g) ==
    { b \in Range(g.cfg.blocks) : _is_return_block(g, b) }

RECURSIVE _dfs_can_reach_exit(_, _, _, _, _)
RECURSIVE _dfs_can_reach_exit_succs(_, _, _, _, _, _)

\* The result r and the visited set as the call leaves it.
_dfs_can_reach_exit(g, cur, exit, return_blocks, visited) ==
    IF cur = exit THEN [r |-> TRUE, visited |-> visited]
    ELSE IF cur \in visited THEN [r |-> FALSE, visited |-> visited]
    ELSE IF cur \in return_blocks
         THEN [r |-> FALSE, visited |-> visited \cup {cur}]
    ELSE _dfs_can_reach_exit_succs(g, successors(g, cur), 1, exit,
                                   return_blocks, visited \cup {cur})

\* A loop over the successors that ends after its first round.
_dfs_can_reach_exit_first_succ(g, succs, i, exit, return_blocks, visited) ==
    IF i > Len(succs) THEN [r |-> FALSE, visited |-> visited]
    ELSE _dfs_can_reach_exit(g, succs[i], exit, return_blocks, visited)

\* The loop "for succ in current.successors", from its i-th round.
_dfs_can_reach_exit_succs(g, succs, i, exit, return_blocks, visited) ==
    IF i > Len(succs) THEN [r |-> FALSE, visited |-> visited]
    ELSE LET res == _dfs_can_reach_exit(g, succs[i], exit, return_blocks,
                                        visited)
         IN  IF res.r THEN res
             ELSE _dfs_can_reach_exit_succs(g, succs, i + 1, exit,
                                            return_blocks, res.visited)

function_always_returns(g) ==
    LET return_blocks == _find_return_blocks(g)
        can_reach_exit == _dfs_can_reach_exit(g, g.cfg.entry, g.cfg.exit,
                                              return_blocks, {}).r
    IN  ~can_reach_exit

\* ------------------------------------------------------------------------
\* cfg_analysis.py: CFGUnreachableAnalyzer
\* ------------------------------------------------------------------------

RECURSIVE _dfs(_, _, _)
RECURSIVE _dfs_succs(_, _, _, _)

\* The visited set as the call leaves it.
_dfs(g, block, visited) ==
    IF block \in visited THEN visited
    ELSE _dfs_succs(g, successors(g, block), 1, visited \cup {block})

\* A loop over the successors that ends after its first round.
_dfs_first_succ(g, succs, i, visited) ==
    IF i > Len(succs) THEN visited
    ELSE _dfs(g, succs[i], visited)

\* The loop "for succ in block.successors", from its i-th round.
_dfs_succs(g, succs, i, visited) ==
    IF i > Len(succs) THEN visited
    ELSE _dfs_succs(g, succs, i + 1, _dfs(g, succs[i], visited))

reachable_blocks(g) == _dfs(g, g.cfg.entry, {})

unreachable_blocks(g) == Range(g.cfg.blocks) \ reachable_blocks(g)

\* ------------------------------------------------------------------------
\* cfg_analysis.py: CFGVarAccessHelper
\* ------------------------------------------------------------------------

RECURSIVE vars_read_in_expr(_)
RECURSIVE vars_read_in_args(_)

vars_read_in_expr(expr) ==
    IF isinstance(expr, "VarExpr") THEN {expr.name}
    ELSE IF isinstance(expr, "Literal") THEN {}
    ELSE IF isinstance(expr, "UnaryExpr") THEN vars_read_in_expr(expr.right)
    ELSE IF isinstance(expr, "BinaryExpr")
         THEN vars_read_in_expr(expr.left) \cup vars_read_in_expr(expr.right)
    ELSE IF isinstance(expr, "CallExpr") THEN vars_read_in_args(expr.arguments)
    ELSE {}

vars_read_in_args(arguments) ==
    IF arguments = <<>> THEN {}
    ELSE vars_read_in_expr(Head(arguments))
         \cup vars_read_in_args(Tail(arguments))

vars_read_in_stmt(s) ==
    IF isinstance(s, "Assign") THEN vars_read_in_expr(s.value)
    ELSE IF isinstance(s, "VarDecl")
         THEN (IF s.value = None THEN {} ELSE vars_read_in_expr(s.value))
    ELSE IF isinstance(s, "PrintStmt") THEN vars_read_in_expr(s.value)
    ELSE IF isinstance(s, "ReturnStmt")
         THEN (IF s.value = None THEN {} ELSE vars_read_in_expr(s.value))
    ELSE IF isinstance(s, "IfStmt") THEN vars_read_in_expr(s.condition)
    ELSE IF isinstance(s, "WhileStmt") THEN vars_read_in_expr(s.condition)
    ELSE {}

vars_written_in_stmt(s) ==
    IF isinstance(s, "Assign") THEN {s.name}
    ELSE IF isinstance(s, "VarDecl") /\ s.value # None THEN {s.name}
    ELSE {}

\* The statements of the CFG in the order "for block in cfg.blocks: for
\* stmt in block.statements", as <<block, index>>.
StmtRefs(g) ==
    Concat([n \in 1..Len(g.cfg.blocks) |->
              [i \in 1..Len(g.bb[g.cfg.blocks[n]].statements) |->
                 <<g.cfg.blocks[n], i>>]])

\* ------------------------------------------------------------------------
\* cfg_analysis.py: CFGDefiniteAssignmentAnalyzer.  IN and OUT are dicts
\* keyed by block: functions on the blocks that have a key, in the fields
\* In and Out (IN is a reserved word).
\* ------------------------------------------------------------------------

CFGDefiniteAssignmentAnalyzer(params) ==
    [params |-> { params[i].name : i \in 1..Len(params) },
     In |-> <<>>, Out |-> <<>>, errors |-> <<>>]

StmtAt(g, r) == g.bb[r[1]].statements[r[2]]

_collect_all_variables(g) ==
    { StmtAt(g, r).name :
        r \in { q \in Range(StmtRefs(g)) : isinstance(StmtAt(g, q), "VarDecl") } }

\* An _initialize that starts entry from the declared variables that are
\* not parameters.
da_initialize_from_non_params(g, a) ==
    LET all_vars == _collect_all_variables(g)
    IN  [a EXCEPT
           !.In = [b \in Range(g.cfg.blocks) |->
                     IF b = g.cfg.entry THEN all_vars \ a.params
                     ELSE all_vars],
           !.Out = [b \in Range(g.cfg.blocks) |-> {}]]

\* CFGDefiniteAssignmentAnalyzer._initialize
da_initialize(g, a) ==
    LET all_vars == _collect_all_variables(g)
    IN  [a EXCEPT
           !.In = [b \in Range(g.cfg.blocks) |->
                     IF b = g.cfg.entry THEN a.params ELSE all_vars],
           !.Out = [b \in Range(g.cfg.blocks) |-> {}]]

RECURSIVE da_union(_, _, _, _)
\* A loop over the predecessors that joins by union.
da_union(a, preds, i, res) ==
    IF i > Len(preds) THEN res
    ELSE da_union(a, preds, i + 1, res \cup a.Out[preds[i]])

RECURSIVE da_intersect(_, _, _, _)
\* The loop "for p in block.predecessors[1:]: result &= self.Out[p]", from
\* the i-th predecessor.
da_intersect(a, preds, i, res) ==
    IF i > Len(preds) THEN res
    ELSE da_intersect(a, preds, i + 1, res \cap a.Out[preds[i]])

\* CFGDefiniteAssignmentAnalyzer._compute_in
da_compute_in(g, a, block) ==
    LET preds == predecessors(g, block)
    IN  IF preds = <<>> THEN a.In[block]
        ELSE da_intersect(a, preds, 2, a.Out[preds[1]])

_assigned_in_block(g, block) ==
    { g.bb[block].statements[i].name :
        i \in { j \in 1..Len(g.bb[block].statements) :
                  \/ isinstance(g.bb[block].statements[j], "Assign")
                  \/ /\ isinstance(g.bb[block].statements[j], "VarDecl")
                     /\ g.bb[block].statements[j].value # None } }

\* CFGDefiniteAssignmentAnalyzer._compute_out
da_compute_out(g, block, in_set) == in_set \cup _assigned_in_block(g, block)

RECURSIVE da_round_once(_, _, _, _)
\* A round that leaves changed False whatever it updates: the while loop
\* ends after its first round.
da_round_once(g, a, n, changed) ==
    IF n > Len(g.cfg.blocks) THEN [a |-> a, changed |-> FALSE]
    ELSE LET b == g.cfg.blocks[n]
             new_in == da_compute_in(g, a, b)
             new_out == da_compute_out(g, b, new_in)
         IN  CHOOSE r \in
               { da_round_once(g, updated, n + 1, changed) :
                   updated \in {[a EXCEPT !.In[b] = new_in, !.Out[b] = new_out]} } :
               TRUE

RECURSIVE da_round(_, _, _, _)
\* One round of the while loop of _fixed_point: "for b in self.cfg.blocks",
\* from the n-th block; the analyzer and changed as the round leaves them.
\* The rest of the round reads the analyzer and the flag as the values
\* "updated" and "flag" the block left.
da_round(g, a, n, changed) ==
    IF n > Len(g.cfg.blocks) THEN [a |-> a, changed |-> changed]
    ELSE LET b == g.cfg.blocks[n]
             new_in == da_compute_in(g, a, b)
             new_out == da_compute_out(g, b, new_in)
             differs == new_in # a.In[b] \/ new_out # a.Out[b]
         IN  CHOOSE r \in
               { da_round(g, updated, n + 1, flag) :
                   updated \in {IF differs
                                 THEN [a EXCEPT !.In[b] = new_in, !.Out[b] = new_out]
                                 ELSE a},
                   flag \in {differs \/ changed} } :
               TRUE

RECURSIVE da_fixed_point(_, _)
\* CFGDefiniteAssignmentAnalyzer._fixed_point: the rounds of
\* "while changed", to the analyzer the loop ends with.
da_fixed_point(g, a) ==
    LET r == da_round(g, a, 1, FALSE)
    IN  IF r.changed THEN da_fixed_point(g, r.a) ELSE r.a

\* CFGDefiniteAssignmentAnalyzer(cfg, params).analyze()
da_analyze(g, params) ==
    da_fixed_point(g, da_initialize(g, CFGDefiniteAssignmentAnalyzer(params)))

\* The set "assigned" of check_uses when it reaches statement i of block.
da_assigned_at(g, a, block, i) ==
    a.In[block] \cup UNION { vars_written_in_stmt(g.bb[block].statements[j]) :
                               j \in 1..(i - 1) }

\* check_uses: the errors of one statement, in each order the loop
\* "for var in self.vars_read_in_stmt(stmt)" may take over the set.
da_stmt_errors(g, a, f, r) ==
    LET unassigned == vars_read_in_stmt(StmtAt(g, r))
                        \ da_assigned_at(g, a, r[1], r[2])
    IN  { [n \in 1..Cardinality(unassigned) |->
             SemanticError(<<"Variable '", o[n], "' may be unassigned">>,
                           StmtNode(f, r[1], r[2]))] : o \in Orders(unassigned) }

\* check_uses: the lists self.errors may end as.
check_uses(g, a, f) ==
    LET refs == StmtRefs(g)
    IN  Choices([n \in 1..Len(refs) |-> da_stmt_errors(g, a, f, refs[n])])

\* ------------------------------------------------------------------------
\* cfg_analysis.py: CFGDeadStoreAnalyzer
\* ------------------------------------------------------------------------

CFGDeadStoreAnalyzer == [In |-> <<>>, Out |-> <<>>, dead_stores |-> <<>>]

ds_initialize(g, a) ==
    [a EXCEPT !.In = [b \in Range(g.cfg.blocks) |-> {}],
              !.Out = [b \in Range(g.cfg.blocks) |-> {}]]

RECURSIVE ds_live_before(_, _, _)
\* The loop "for stmt in reversed(block.statements)" of _compute_in, from
\* statement i down: kill the written variables, then gen the read ones.
ds_live_before(stmts, i, live) ==
    IF i = 0 THEN live
    ELSE ds_live_before(stmts, i - 1,
                        (live \ vars_written_in_stmt(stmts[i]))
                          \cup vars_read_in_stmt(stmts[i]))

\* CFGDeadStoreAnalyzer._compute_in
ds_compute_in(g, block, out_set) ==
    ds_live_before(g.bb[block].statements, Len(g.bb[block].statements), out_set)

\* A live-out that is live-in of every successor.
ds_new_out_of_all(g, a, b) ==
    { x \in UNION { a.In[succ] : succ \in Range(successors(g, b)) } :
        \A succ \in Range(successors(g, b)) : x \in a.In[succ] }

\* "for succ in b.successors: new_out |= self.In[succ]"
ds_new_out(g, a, b) ==
    UNION { a.In[succ] : succ \in Range(successors(g, b)) }

RECURSIVE ds_round_once(_, _, _, _)
\* A round that leaves changed False whatever it updates: the while loop
\* ends after its first round.
ds_round_once(g, a, n, changed) ==
    IF n = 0 THEN [a |-> a, changed |-> FALSE]
    ELSE LET b == g.cfg.blocks[n]
             new_out == ds_new_out(g, a, b)
             new_in == ds_compute_in(g, b, new_out)
         IN  CHOOSE r \in
               { ds_round_once(g, updated, n - 1, changed) :
                   updated \in {[a EXCEPT !.In[b] = new_in, !.Out[b] = new_out]} } :
               TRUE

RECURSIVE ds_round(_, _, _, _)
\* One round of the while loop of _fixed_point: "for b in
\* reversed(self.cfg.blocks)", from the n-th block down.
ds_round(g, a, n, changed) ==
    IF n = 0 THEN [a |-> a, changed |-> changed]
    ELSE LET b == g.cfg.blocks[n]
             new_out == ds_new_out(g, a, b)
             new_in == ds_compute_in(g, b, new_out)
             differs == new_in # a.In[b] \/ new_out # a.Out[b]
         IN  CHOOSE r \in
               { ds_round(g, updated, n - 1, flag) :
                   updated \in {IF differs
                                THEN [a EXCEPT !.In[b] = new_in,
                                               !.Out[b] = new_out]
                                ELSE a},
                   flag \in {changed \/ differs} } :
               TRUE

RECURSIVE ds_block_dead_stores_without_gen(_, _, _, _)
\* A loop of _collect_dead_stores that forgets "live |= read".
ds_block_dead_stores_without_gen(g, block, i, live) ==
    IF i = 0 THEN <<>>
    ELSE LET s == g.bb[block].statements[i]
             written == vars_written_in_stmt(s)
             dead == { var \in written : var \notin live }
         IN  [n \in 1..Cardinality(dead) |-> <<block, i>>]
             \o ds_block_dead_stores_without_gen(g, block, i - 1, live \ written)

RECURSIVE ds_block_dead_stores(_, _, _, _)
\* _collect_dead_stores: the loop over reversed(block.statements), from
\* statement i down, with the running set live.
ds_block_dead_stores(g, block, i, live) ==
    IF i = 0 THEN <<>>
    ELSE LET s == g.bb[block].statements[i]
             written == vars_written_in_stmt(s)
             read == vars_read_in_stmt(s)
             dead == { var \in written : var \notin live }
         IN  [n \in 1..Cardinality(dead) |-> <<block, i>>]
             \o ds_block_dead_stores(g, block, i - 1, (live \ written) \cup read)

_collect_dead_stores(g, a) ==
    Concat([n \in 1..Len(g.cfg.blocks) |->
              ds_block_dead_stores(g, g.cfg.blocks[n],
                                   Len(g.bb[g.cfg.blocks[n]].statements),
                                   a.Out[g.cfg.blocks[n]])])

RECURSIVE ds_fixed_point(_, _)
\* CFGDeadStoreAnalyzer._fixed_point: the rounds of "while changed", to
\* the analyzer the loop ends with.
ds_fixed_point(g, a) ==
    LET r == ds_round(g, a, Len(g.cfg.blocks), FALSE)
    IN  IF r.changed THEN ds_fixed_point(g, r.a) ELSE r.a

\* CFGDeadStoreAnalyzer(cfg).analyze(): the dead_stores it ends with.
ds_analyze(g) ==
    _collect_dead_stores(g, ds_fixed_point(g, ds_initialize(g, CFGDeadStoreAnalyzer)))

\* ------------------------------------------------------------------------
\* cfg_analysis.py: ZeroState, CFGZeroAnalysis.  A State is a dict from
\* variable names to ZeroState: a function on Names whose value is ABSENT
\* at the names that are no key of the dict.
\* ------------------------------------------------------------------------

\* The variable names the generated sources use.
Names == {"x", "y"}

ZERO == "ZERO"
NONZERO == "NONZERO"
UNKNOWN == "UNKNOWN"
ABSENT == "ABSENT"

\* state.get(name, ZeroState.UNKNOWN)
get(state, name) == IF state[name] = ABSENT THEN UNKNOWN ELSE state[name]
keys(state) == { name \in Names : state[name] # ABSENT }

CFGZeroAnalysis == [In |-> <<>>, Out |-> <<>>, errors |-> <<>>]

_initial_state == [name \in Names |-> ABSENT]

za_initialize(g, a) ==
    [a EXCEPT !.In = [b \in Range(g.cfg.blocks) |-> _initial_state],
              !.Out = [b \in Range(g.cfg.blocks) |-> _initial_state]]

\* isinstance(expr.value, int): true of a bool as well.
isinstance_int(py) == py \in {"int", "bool"}

_eval_expr(expr, state) ==
    IF isinstance(expr, "Literal")
    THEN (IF isinstance_int(expr.py) /\ expr.value = 0 THEN ZERO ELSE NONZERO)
    ELSE IF isinstance(expr, "VarExpr") THEN get(state, expr.name)
    ELSE UNKNOWN

\* The state as _apply_stmt leaves it.
_apply_stmt(s, state) ==
    IF isinstance(s, "Assign")
    THEN [state EXCEPT ![s.name] = _eval_expr(s.value, state)]
    ELSE IF isinstance(s, "VarDecl")
         THEN (IF s.value # None
               THEN [state EXCEPT ![s.name] = _eval_expr(s.value, state)]
               ELSE [state EXCEPT ![s.name] = UNKNOWN])
    ELSE state

RECURSIVE za_apply_from(_, _, _)
\* "for stmt in block.statements: self._apply_stmt(stmt, cur)", from
\* statement i.
za_apply_from(stmts, i, cur) ==
    IF i > Len(stmts) THEN cur
    ELSE za_apply_from(stmts, i + 1, _apply_stmt(stmts[i], cur))

_transfer_block(g, block, state) ==
    za_apply_from(g.bb[block].statements, 1, state)

\* A refinement that asserts NONZERO whatever the polarity of the edge.
refine_ignoring_polarity(cond, assume_true, state) ==
    IF isinstance(cond, "VarExpr")
    THEN [state EXCEPT ![cond.name] = NONZERO]
    ELSE IF /\ isinstance(cond, "UnaryExpr")
            /\ cond.op = "!"
            /\ isinstance(cond.right, "VarExpr")
         THEN [state EXCEPT ![cond.right.name] = ZERO]
    ELSE state

refine_on_condition(cond, assume_true, state) ==
    IF isinstance(cond, "VarExpr")
    THEN [state EXCEPT ![cond.name] =
            IF assume_true = True THEN NONZERO ELSE ZERO]
    ELSE IF /\ isinstance(cond, "UnaryExpr")
            /\ cond.op = "!"
            /\ isinstance(cond.right, "VarExpr")
         THEN [state EXCEPT ![cond.right.name] =
                 IF assume_true = True THEN ZERO ELSE NONZERO]
    ELSE state

\* A join that keeps the value of a where the two differ.
_join_states_keeping_left(a, b) ==
    [name \in Names |->
       IF name \in keys(a) \cup keys(b) THEN get(a, name) ELSE ABSENT]

_join_states(a, b) ==
    [name \in Names |->
       IF name \in keys(a) \cup keys(b)
       THEN (IF get(a, name) = get(b, name) THEN get(a, name) ELSE UNKNOWN)
       ELSE ABSENT]

\* _compute_in: the state the i-th incoming edge contributes, a copy of
\* the OUT of its source refined on the edge's condition.
za_pred_state(g, a, block, i) ==
    LET edge == g.edges[g.bb[block].in_edges[i]]
        pred_state == a.Out[edge.src]
    IN  IF edge.cond # None
        THEN refine_on_condition(edge.cond, edge.assume_true, pred_state)
        ELSE pred_state

RECURSIVE za_join_from(_, _, _, _, _)
\* "for edge in block.in_edges", from the i-th edge, state not None.
za_join_from(g, a, block, i, state) ==
    IF i > Len(g.bb[block].in_edges) THEN state
    ELSE za_join_from(g, a, block, i + 1,
                      _join_states(state, za_pred_state(g, a, block, i)))

\* CFGZeroAnalysis._compute_in
za_compute_in(g, a, block) ==
    IF g.bb[block].in_edges = <<>> THEN _initial_state
    ELSE za_join_from(g, a, block, 2, za_pred_state(g, a, block, 1))

\* ------------------------------------------------------------------------
\* _compute_in on dict objects.  A heap is the sequence of the dicts that
\* exist, a reference is an index of it; the dict OUT[b] is at index b, and
\* a new dict is appended.  An operator returns the heap it leaves and the
\* reference it returns.
\* ------------------------------------------------------------------------

\* The dicts self.OUT holds, OUT[b] at index b.
OutHeap(g, a) == [b \in 1..Len(g.bb) |-> a.Out[b]]

\* dict(d): a new dict with the entries of the dict at ref.
dict_copy(heap, ref) == [heap |-> Append(heap, heap[ref]), ref |-> Len(heap) + 1]

\* refine_on_condition on the dict at ref: "new_state: State = state" is
\* the same dict, which the assignment to new_state[...] changes, and every
\* return gives that dict back.
refine_in_place(heap, cond, assume_true, ref) ==
    [heap |-> [heap EXCEPT ![ref] = refine_on_condition(cond, assume_true, @)],
     ref |-> ref]

\* A _compute_in that refines self.OUT[edge.src] itself, without dict().
pred_state_ref_without_copy(g, heap, block, i) ==
    LET edge == g.edges[g.bb[block].in_edges[i]]
    IN  IF edge.cond # None
        THEN refine_in_place(heap, edge.cond, edge.assume_true, edge.src)
        ELSE [heap |-> heap, ref |-> edge.src]

\* _compute_in: pred_state for the i-th incoming edge,
\* dict(self.OUT[edge.src]) refined if the edge carries a condition.
pred_state_ref(g, heap, block, i) ==
    LET edge == g.edges[g.bb[block].in_edges[i]]
        pred_state == dict_copy(heap, edge.src)
    IN  IF edge.cond # None
        THEN refine_in_place(pred_state.heap, edge.cond, edge.assume_true,
                             pred_state.ref)
        ELSE pred_state

RECURSIVE join_from_ref(_, _, _, _, _)
\* "for edge in block.in_edges", from the i-th edge, state not None:
\* _join_states returns a new dict.
join_from_ref(g, heap, block, i, state) ==
    IF i > Len(g.bb[block].in_edges) THEN [heap |-> heap, ref |-> state]
    ELSE LET p == pred_state_ref(g, heap, block, i)
             joined == _join_states(p.heap[state], p.heap[p.ref])
         IN  join_from_ref(g, Append(p.heap, joined), block, i + 1,
                           Len(p.heap) + 1)

\* CFGZeroAnalysis._compute_in, on the heap.
compute_in_ref(g, heap, block) ==
    IF g.bb[block].in_edges = <<>>
    THEN [heap |-> Append(heap, _initial_state), ref |-> Len(heap) + 1]
    ELSE LET p == pred_state_ref(g, heap, block, 1)
         IN  join_from_ref(g, p.heap, block, 2, p.ref)

RECURSIVE za_round_once(_, _, _, _)
\* A round that leaves changed False whatever it updates: the while loop
\* ends after its first round.
za_round_once(g, a, n, changed) ==
    IF n > Len(g.cfg.blocks) THEN [a |-> a, changed |-> FALSE]
    ELSE LET b == g.cfg.blocks[n]
             in_state == za_compute_in(g, a, b)
             out_state == _transfer_block(g, b, in_state)
         IN  CHOOSE r \in
               { za_round_once(g, updated, n + 1, changed) :
                   updated \in {[a EXCEPT !.In[b] = in_state,
                                          !.Out[b] = out_state]} } :
               TRUE

RECURSIVE za_round(_, _, _, _)
\* One round of the while loop of analyze: "for b in self.cfg.blocks",
\* from the n-th block.  The rest of the round reads the analysis and the
\* flag as the values "updated" and "flag" the block left.
za_round(g, a, n, changed) ==
    IF n > Len(g.cfg.blocks) THEN [a |-> a, changed |-> changed]
    ELSE LET b == g.cfg.blocks[n]
             in_state == za_compute_in(g, a, b)
             out_state == _transfer_block(g, b, in_state)
             differs == in_state # a.In[b] \/ out_state # a.Out[b]
         IN  CHOOSE r \in
               { za_round(g, updated, n + 1, flag) :
                   updated \in {IF differs
                                 THEN [a EXCEPT !.In[b] = in_state,
                                                !.Out[b] = out_state]
                                 ELSE a},
                   flag \in {differs \/ changed} } :
               TRUE

RECURSIVE _check_expr(_, _, _)
RECURSIVE _check_args(_, _, _, _)

\* The place of the i-th argument of a call in the call.
ArgField == <<"arguments[0]", "arguments[1]">>

\* The paths of the expressions _check_expr reports, in order; path is
\* the place of expr in its statement.
_check_expr(expr, state, path) ==
    IF isinstance(expr, "BinaryExpr")
    THEN (IF /\ expr.op = "/"
             /\ isinstance(expr.right, "VarExpr")
             /\ get(state, expr.right.name) # NONZERO
          THEN <<path>> ELSE <<>>)
         \o _check_expr(expr.left, state, Append(path, "left"))
         \o _check_expr(expr.right, state, Append(path, "right"))
    ELSE IF isinstance(expr, "UnaryExpr")
         THEN _check_expr(expr.right, state, Append(path, "right"))
    ELSE IF isinstance(expr, "CallExpr")
         THEN _check_args(expr.arguments, 1, state, path)
    ELSE <<>>

\* "for arg in expr.arguments", from the i-th argument.
_check_args(arguments, i, state, path) ==
    IF i > Len(arguments) THEN <<>>
    ELSE _check_expr(arguments[i], state, Append(path, ArgField[i]))
         \o _check_args(arguments, i + 1, state, path)

_check_stmt(s, state) ==
    IF isinstance(s, "Assign") THEN _check_expr(s.value, state, <<"value">>)
    ELSE IF isinstance(s, "VarDecl")
         THEN (IF s.value # None THEN _check_expr(s.value, state, <<"value">>)
               ELSE <<>>)
    ELSE IF isinstance(s, "PrintStmt")
         THEN _check_expr(s.value, state, <<"value">>)
    ELSE IF isinstance(s, "ReturnStmt")
         THEN (IF s.value # None THEN _check_expr(s.value, state, <<"value">>)
               ELSE <<>>)
    ELSE <<>>

RECURSIVE za_block_errors(_, _, _, _, _)
\* The diagnostic pass of analyze on one block: "for stmt in b.statements:
\* _check_stmt(stmt, state); _apply_stmt(stmt, state)", from statement i.
za_block_errors(g, f, block, i, state) ==
    IF i > Len(g.bb[block].statements) THEN <<>>
    ELSE LET s == g.bb[block].statements[i]
             paths == _check_stmt(s, state)
         IN  [n \in 1..Len(paths) |->
                SemanticError(<<"Possible division by zero">>,
                              ExprNode(f, block, i, paths[n]))]
             \o za_block_errors(g, f, block, i + 1, _apply_stmt(s, state))

\* The diagnostic pass of analyze: the errors it appends.
za_errors(g, a, f) ==
    Concat([n \in 1..Len(g.cfg.blocks) |->
              za_block_errors(g, f, g.cfg.blocks[n], 1, a.In[g.cfg.blocks[n]])])

\* ------------------------------------------------------------------------
\* symbols.py: ScopeStack.  The stack of scopes is a sequence of sets of
\* symbols, the current scope last; a scope holds one symbol per name.
\* ------------------------------------------------------------------------

Symbol(name, kind, type) == [name |-> name, kind |-> kind, type |-> type]

push_scope(scopes) == Append(scopes, {})
pop_scope(scopes) == SubSeq(scopes, 1, Len(scopes) - 1)

define(scopes, sym) ==
    [scopes EXCEPT ![Len(scopes)] = {s \in @ : s.name # sym.name} \cup {sym}]

lookup_current(scopes, name) ==
    IF scopes = <<>> THEN None
    ELSE LET found == {s \in scopes[Len(scopes)] : s.name = name}
         IN  IF found = {} THEN None ELSE CHOOSE s \in found : TRUE

RECURSIVE lookup(_, _)
lookup(scopes, name) ==
    IF scopes = <<>> THEN None
    ELSE LET sym == lookup_current(scopes, name)
         IN  IF sym # None THEN sym ELSE lookup(pop_scope(scopes), name)

\* ------------------------------------------------------------------------
\* semantic.py: SemanticAnalyzer.  A visit returns the errors it appends
\* (and, of an expression, its inferred_type; of a statement, the scopes
\* it leaves).  The node of an error is the AST node.
\* ------------------------------------------------------------------------

INT == "Type.INT"
BOOL == "Type.BOOL"

_map_type(t) == IF t = "int" THEN INT ELSE BOOL

RECURSIVE _visit_expr(_, _)
RECURSIVE _visit_arguments(_, _, _)

\* "for arg in node.arguments: self._visit_expr(arg)", from the i-th.
_visit_arguments(scopes, arguments, i) ==
    IF i > Len(arguments) THEN <<>>
    ELSE _visit_expr(scopes, arguments[i]).errors
         \o _visit_arguments(scopes, arguments, i + 1)

\* _visit_binary, after its operands are visited.
_binary_type(node, lt, rt) ==
    LET op == node.op
    IN  IF op \in {"+", "-", "*", "/"}
        THEN [type |-> INT,
              errors |-> IF lt = INT /\ rt = INT THEN <<>>
                         ELSE <<SemanticError(<<"Arithmetic operator '", op,
                                  "' requires int operands">>, node)>>]
        ELSE IF op \in {"<", ">", "<=", ">="}
        THEN [type |-> BOOL,
              errors |-> IF lt = INT /\ rt = INT THEN <<>>
                         ELSE <<SemanticError(<<"Relational operator '", op,
                                  "' requires int operands">>, node)>>]
        ELSE IF op \in {"==", "!="}
        THEN [type |-> BOOL,
              errors |-> IF lt = rt THEN <<>>
                         ELSE <<SemanticError(<<"Equality operator '", op,
                                  "' requires operands of same type">>, node)>>]
        ELSE IF op \in {"&&", "||"}
        THEN [type |-> BOOL,
              errors |-> IF lt = BOOL /\ rt = BOOL THEN <<>>
                         ELSE <<SemanticError(<<"Logical operator '", op,
                                  "' requires bool operands">>, node)>>]
        ELSE [type |-> INT,
              errors |-> <<SemanticError(<<"Unknown binary operator '", op,
                                           "'">>, node)>>]

_visit_expr(scopes, node) ==
    IF isinstance(node, "VarExpr")
    THEN LET sym == lookup(scopes, node.name)
         IN  IF sym = None
             THEN [type |-> INT,
                   errors |-> <<SemanticError(<<"Use of undeclared variable '",
                                                node.name, "'">>, node)>>]
             ELSE [type |-> sym.type, errors |-> <<>>]
    ELSE IF isinstance(node, "CallExpr")
    THEN LET sym == lookup(scopes, node.fname)
             own == IF sym = None
                    THEN [type |-> INT,
                          errors |-> <<SemanticError(
                              <<"Call to undefined function '", node.fname,
                                "'">>, node)>>]
                    ELSE IF sym.kind # "FUNC"
                    THEN [type |-> INT,
                          errors |-> <<SemanticError(
                              <<"'", node.fname, "' is not a function">>,
                              node)>>]
                    ELSE [type |-> sym.type, errors |-> <<>>]
         IN  [type |-> own.type,
              errors |-> own.errors
                         \o _visit_arguments(scopes, node.arguments, 1)]
    ELSE IF isinstance(node, "BinaryExpr")
    THEN LET l == _visit_expr(scopes, node.left)
             r == _visit_expr(scopes, node.right)
             own == _binary_type(node, l.type, r.type)
         IN  [type |-> own.type, errors |-> l.errors \o r.errors \o own.errors]
    ELSE IF isinstance(node, "UnaryExpr")
    THEN LET r == _visit_expr(scopes, node.right)
         IN  IF node.op = "-" /\ r.type = INT
             THEN [type |-> INT, errors |-> r.errors]
             ELSE IF node.op = "!" /\ r.type = BOOL
             THEN [type |-> BOOL, errors |-> r.errors]
             ELSE [type |-> INT,
                   errors |-> Append(r.errors,
                       SemanticError(<<"Invalid operand type for '", node.op,
                                       "'">>, node))]
    ELSE \* Literal
         [type |-> IF node.py = "bool" THEN BOOL ELSE INT, errors |-> <<>>]

_visit_var_decl(scopes, node) ==
    LET redeclared == lookup_current(scopes, node.name) # None
        sym == Symbol(node.name, "VAR", _map_type(node.type))
        v == IF node.value # None THEN _visit_expr(
                 IF redeclared THEN scopes ELSE define(scopes, sym),
                 node.value)
             ELSE [type |-> None, errors |-> <<>>]
    IN  [scopes |-> IF redeclared THEN scopes ELSE define(scopes, sym),
         errors |->
           (IF redeclared
            THEN <<SemanticError(<<"Redeclaration of variable '", node.name,
                                   "'">>, node)>>
            ELSE <<>>)
           \o v.errors
           \o (IF node.value # None /\ ~redeclared /\ v.type # sym.type
               THEN <<SemanticError(
                        <<"Type mismatch in initialization of '", node.name,
                          "' (expected ", sym.type, ", got ", v.type, ")">>,
                        node)>>
               ELSE <<>>)]

_visit_assign(scopes, node) ==
    LET sym == lookup(scopes, node.name)
        v == _visit_expr(scopes, node.value)
    IN  (IF sym = None
         THEN <<SemanticError(<<"Use of undeclared variable '", node.name,
                                "'">>, node)>>
         ELSE <<>>)
        \o v.errors
        \o (IF sym # None /\ sym.type # v.type
            THEN <<SemanticError(
                     <<"Type mismatch in assignment to '", node.name,
                       "' (expected ", sym.type, ", got ", v.type, ")">>,
                     node)>>
            ELSE <<>>)

\* _visit_return, in a function (current_function_return_type is ret) and
\* on a ReturnStmt with a value, which is all the parser produces.
_visit_return(scopes, ret, node) ==
    LET v == _visit_expr(scopes, node.value)
    IN  v.errors
        \o (IF v.type # ret
            THEN <<SemanticError(<<"Return type mismatch (expected ", ret,
                                   ", got ", v.type, ")">>, node)>>
            ELSE <<>>)

\* The condition of an if or a while statement.
_visit_condition(scopes, node, what) ==
    LET c == _visit_expr(scopes, node.condition)
    IN  c.errors
        \o (IF c.type # BOOL
            THEN <<SemanticError(<<"Condition of ", what,
                                   "-statement must be bool">>,
                                 node.condition)>>
            ELSE <<>>)

RECURSIVE _visit_block(_, _, _)
RECURSIVE _visit_stmt(_, _, _)
RECURSIVE _visit_statements(_, _, _, _, _)

_visit_stmt(scopes, ret, node) ==
    IF isinstance(node, "VarDecl") THEN _visit_var_decl(scopes, node)
    ELSE [scopes |-> scopes,
          errors |->
            IF isinstance(node, "Assign") THEN _visit_assign(scopes, node)
            ELSE IF isinstance(node, "IfStmt")
            THEN _visit_condition(scopes, node, "if")
                 \o _visit_block(scopes, ret, node.then_body)
                 \o (IF node.else_body # None
                     THEN _visit_block(scopes, ret, node.else_body)
                     ELSE <<>>)
            ELSE IF isinstance(node, "WhileStmt")
            THEN _visit_condition(scopes, node, "while")
                 \o _visit_block(scopes, ret, node.body)
            ELSE IF isinstance(node, "ReturnStmt")
            THEN _visit_return(scopes, ret, node)
            ELSE IF isinstance(node, "PrintStmt")
            THEN _visit_expr(scopes, node.value).errors
            ELSE _visit_block(scopes, ret, node)]

\* The loop of _visit_block, from the i-th statement.
_visit_statements(scopes, ret, statements, i, reachable) ==
    IF i > Len(statements) THEN <<>>
    ELSE IF ~reachable
    THEN <<SemanticError(<<"Unreachable code">>, statements[i])>>
         \o _visit_statements(scopes, ret, statements, i + 1, reachable)
    ELSE LET r == _visit_stmt(scopes, ret, statements[i])
         IN  r.errors
             \o _visit_statements(r.scopes, ret, statements, i + 1,
                                  ~isinstance(statements[i], "ReturnStmt"))

\* _visit_block: the scope it pushes is popped at its end, so the scopes
\* are those it was called with.
_visit_block(scopes, ret, node) ==
    _visit_statements(push_scope(scopes), ret, node.statements, 1, TRUE)

RECURSIVE _declare_functions(_, _, _)
\* Pass 1 of _visit_program: _declare_function on the i-th function on.
_declare_functions(scopes, functions, i) ==
    IF i > Len(functions) THEN [scopes |-> scopes, errors |-> <<>>]
    ELSE LET node == functions[i]
         IN  IF lookup_current(scopes, node.name) # None
             THEN LET r == _declare_functions(scopes, functions, i + 1)
                  IN  [r EXCEPT !.errors =
                         <<SemanticError(<<"Redeclaration of function '",
                                           node.name, "'">>, node)>> \o @]
             ELSE _declare_functions(
                      define(scopes, Symbol(node.name, "FUNC",
                                            _map_type(node.return_type))),
                      functions, i + 1)

RECURSIVE _define_params(_, _, _)
\* "for param in node.params" of _visit_function, from the i-th.
_define_params(scopes, params, i) ==
    IF i > Len(params) THEN [scopes |-> scopes, errors |-> <<>>]
    ELSE LET param == params[i]
         IN  IF lookup_current(scopes, param.name) # None
             THEN LET r == _define_params(scopes, params, i + 1)
                  IN  [r EXCEPT !.errors =
                         <<SemanticError(<<"Redeclaration of parameter '",
                                           param.name, "'">>, param)>> \o @]
             ELSE _define_params(
                      define(scopes, Symbol(param.name, "PARAM",
                                            _map_type(param.type))),
                      params, i + 1)

_visit_function(scopes, node) ==
    LET p == _define_params(push_scope(scopes), node.params, 1)
    IN  p.errors
        \o _visit_block(p.scopes, _map_type(node.return_type), node.body)

\* SemanticAnalyzer().analyze(program)
analyze(functions) ==
    LET declared == _declare_functions(push_scope(<<>>), functions, 1)
    IN  declared.errors
        \o Concat([i \in 1..Len(functions) |->
                     _visit_function(declared.scopes, functions[i])])

\* ------------------------------------------------------------------------
\* program_semantic.py: ProgramSemanticChecker.check
\* ------------------------------------------------------------------------

check(functions) ==
    LET mains == SelectSeq([i \in 1..Len(functions) |-> i],
                           LAMBDA i : functions[i].name = "main")
    IN  IF Len(mains) = 0
        THEN <<SemanticError(<<"Missing entry function 'main'">>, ProgramNode)>>
        ELSE IF Len(mains) > 1
        THEN [n \in 1..Len(mains) |->
                SemanticError(<<"Multiple definitions of 'main'">>,
                              FnNode(mains[n]))]
        ELSE LET main_fn == functions[mains[1]]
             IN  (IF main_fn.return_type # "int"
                  THEN <<SemanticError(<<"Function 'main' must return int">>,
                                       FnNode(mains[1]))>>
                  ELSE <<>>)
                 \o
                 (IF Len(main_fn.params) # 0
                  THEN <<SemanticError(
                           <<"Function 'main' must take no parameters">>,
                           FnNode(mains[1]))>>
                  ELSE <<>>)

\* ------------------------------------------------------------------------
\* pipeline.py: analyze_source
\* ------------------------------------------------------------------------

\* pipeline.py line 5 imports Diagnostic from semantic.py, which defines
\* no such name (the import raises ImportError).  The model takes the name
\* as unbound where analyze_source uses it: evaluating Diagnostic(str(e))
\* raises NameError inside the except clause, which nothing catches, so
\* analyze_source ends by that exception and returns no result.

\* 1. Lexing.  input.lexer is what Lexer(source).tokenize() does on the
\* source: it returns the tokens, raises LexerError, or does not return
\* ("loops": no step is taken).
Lexing ==
    /\ pc = "lexing"
    /\ \/ /\ input.lexer = "tokens"
          /\ pc' = "parsing"
       \/ /\ input.lexer = "LexerError"
          /\ pc' = "NameError"
    /\ UNCHANGED <<input, lexer, test, result, fnIdx, builderVars, analysisVars>>

\* 2. Parsing.  input.parser is what Parser(tokens).parse() does: it
\* returns the Program whose functions are input.functions, or raises
\* ParseError.
Parsing ==
    /\ pc = "parsing"
    /\ \/ /\ input.parser = "Program"
          /\ pc' = "semantic"
       \/ /\ input.parser = "ParseError"
          /\ pc' = "NameError"
    /\ UNCHANGED <<input, lexer, test, result, fnIdx, builderVars, analysisVars>>

\* 3. Semantic analysis.
SemanticAnalysis ==
    /\ pc = "semantic"
    /\ result' = result \o analyze(input.functions)
    /\ pc' = "program_semantic"
    /\ UNCHANGED <<input, lexer, test, fnIdx, builderVars, analysisVars>>

\* 3.5 Program-level semantics.
ProgramSemantics ==
    /\ pc = "program_semantic"
    /\ LET prog_errors == check(input.functions)
       IN  /\ result' = result \o prog_errors
           /\ pc' = IF prog_errors # <<>> THEN "done" ELSE "for_fn"
    /\ UNCHANGED <<input, lexer, test, fnIdx, builderVars, analysisVars>>

\* 4. "for fn in program.functions": the next function, or the end.
ForFn ==
    /\ pc = "for_fn"
    /\ IF fnIdx < Len(input.functions)
       THEN fnIdx' = fnIdx + 1 /\ pc' = "build_start"
       ELSE fnIdx' = fnIdx /\ pc' = "done"
    /\ UNCHANGED <<input, lexer, test, result, builderVars, analysisVars>>

\* ret_analyzer = CFGReturnAnalyzer(cfg) and its diagnostic.
ReturnAnalysis ==
    /\ pc = "return_analysis"
    /\ result' =
         IF ~function_always_returns(Graph)
         THEN Append(result,
                     SemanticError(<<"Function '", fn.name,
                                     "' may not return a value on all paths">>,
                                   FnNode(fnIdx)))
         ELSE result
    /\ pc' = "unreachable"
    /\ UNCHANGED <<input, lexer, test, fnIdx, builderVars, analysisVars>>

\* The diagnostics of the statements of one block.
UnreachableErrors(g, f, block) ==
    [i \in 1..Len(g.bb[block].statements) |->
       SemanticError(<<"Unreachable code">>, StmtNode(f, block, i))]

\* ua = CFGUnreachableAnalyzer(cfg) and its diagnostics.
\* unreachable_blocks() is a set: the loop takes its blocks in any order
\* (only blocks with statements add a diagnostic).
UnreachableAnalysis ==
    /\ pc = "unreachable"
    /\ \E order \in Orders({ b \in unreachable_blocks(Graph) :
                              bb[b].statements # <<>> }) :
         result' = result
           \o Concat([n \in 1..Len(order) |->
                        UnreachableErrors(Graph, fnIdx, order[n])])
    /\ pc' = "da_analyze"
    /\ UNCHANGED <<input, lexer, test, fnIdx, builderVars, analysisVars>>

\* da = CFGDefiniteAssignmentAnalyzer(cfg, fn.params); da.analyze(), up to
\* the while loop of _fixed_point.
DAInitialize ==
    /\ pc = "da_analyze"
    /\ da' = da_initialize(Graph, CFGDefiniteAssignmentAnalyzer(fn.params))
    /\ pc' = "da_fixed_point"
    /\ UNCHANGED <<input, lexer, test, result, fnIdx, builderVars, ds, za>>

\* One round of "while changed" in da._fixed_point.
DAFixedPoint ==
    /\ pc = "da_fixed_point"
    /\ LET r == da_round(Graph, da, 1, FALSE)
       IN  /\ da' = r.a
           /\ pc' = IF r.changed THEN "da_fixed_point" ELSE "da_check_uses"
    /\ UNCHANGED <<input, lexer, test, result, fnIdx, builderVars, ds, za>>

\* da.check_uses(); result.errors.extend(da.errors)
DACheckUses ==
    /\ pc = "da_check_uses"
    /\ \E errors \in check_uses(Graph, da, fnIdx) :
         /\ da' = [da EXCEPT !.errors = @ \o errors]
         /\ result' = result \o da'.errors
    /\ pc' = "ds_analyze"
    /\ UNCHANGED <<input, lexer, test, fnIdx, builderVars, ds, za>>

\* ds = CFGDeadStoreAnalyzer(cfg); ds.analyze(), up to the while loop of
\* _fixed_point.
DSInitialize ==
    /\ pc = "ds_analyze"
    /\ ds' = ds_initialize(Graph, CFGDeadStoreAnalyzer)
    /\ pc' = "ds_fixed_point"
    /\ UNCHANGED <<input, lexer, test, result, fnIdx, builderVars, da, za>>

\* One round of "while changed" in ds._fixed_point.
DSFixedPoint ==
    /\ pc = "ds_fixed_point"
    /\ LET r == ds_round(Graph, ds, Len(cfg.blocks), FALSE)
       IN  /\ ds' = r.a
           /\ pc' = IF r.changed THEN "ds_fixed_point" ELSE "ds_collect"
    /\ UNCHANGED <<input, lexer, test, result, fnIdx, builderVars, da, za>>

\* ds._collect_dead_stores() and the diagnostics of ds.dead_stores.
DSCollect ==
    /\ pc = "ds_collect"
    /\ ds' = [ds EXCEPT !.dead_stores = @ \o _collect_dead_stores(Graph, ds)]
    /\ result' = result
         \o [n \in 1..Len(ds'.dead_stores) |->
               SemanticError(<<"Dead store">>,
                             StmtNode(fnIdx, ds'.dead_stores[n][1],
                                      ds'.dead_stores[n][2]))]
    /\ pc' = "zero_analyze"
    /\ UNCHANGED <<input, lexer, test, fnIdx, builderVars, da, za>>

\* null = CFGZeroAnalysis(cfg); null.analyze(), up to its while loop.
ZeroInitialize ==
    /\ pc = "zero_analyze"
    /\ za' = za_initialize(Graph, CFGZeroAnalysis)
    /\ pc' = "zero_fixed_point"
    /\ UNCHANGED <<input, lexer, test, result, fnIdx, builderVars, da, ds>>

\* One round of "while changed" in null.analyze().
ZeroFixedPoint ==
    /\ pc = "zero_fixed_point"
    /\ LET r == za_round(Graph, za, 1, FALSE)
       IN  /\ za' = r.a
           /\ pc' = IF r.changed THEN "zero_fixed_point" ELSE "zero_check"
    /\ UNCHANGED <<input, lexer, test, result, fnIdx, builderVars, da, ds>>

\* The diagnostic pass of null.analyze() and the diagnostics of
\* null.errors.
ZeroCheck ==
    /\ pc = "zero_check"
    /\ za' = [za EXCEPT !.errors = @ \o za_errors(Graph, za, fnIdx)]
    /\ result' = result \o za'.errors
    /\ pc' = "for_fn"
    /\ UNCHANGED <<input, lexer, test, fnIdx, builderVars, da, ds>>

\* The body of "for fn in program.functions" on one function.
AnalyzeFn ==
    \/ Builder
    \/ ReturnAnalysis
    \/ UnreachableAnalysis
    \/ DAInitialize
    \/ DAFixedPoint
    \/ DACheckUses
    \/ DSInitialize
    \/ DSFixedPoint
    \/ DSCollect
    \/ ZeroInitialize
    \/ ZeroFixedPoint
    \/ ZeroCheck

Next ==
    \/ Lexing
    \/ Parsing
    \/ SemanticAnalysis
    \/ ProgramSemantics
    \/ ForFn
    \/ AnalyzeFn

\* ------------------------------------------------------------------------
\* tests/diagnostics/run_diagnostics.py.  A string is the sequence of its
\* characters; the ten characters of EXPECT_PREFIX are one element.
\* ------------------------------------------------------------------------

EXPECT_PREFIX == "// EXPECT:"

\* str.lower(), character by character, on the letters the sources use.
same_char(c) == c
lower_char(c) ==
    CASE c = "O" -> "o"
      [] c = "K" -> "k"
      [] OTHER -> c
lower(s) == [i \in 1..Len(s) |-> lower_char(s[i])]

RECURSIVE lstrip(_)
lstrip(s) == IF s # <<>> /\ Head(s) = " " THEN lstrip(Tail(s)) ELSE s
RECURSIVE rstrip(_)
rstrip(s) ==
    IF s # <<>> /\ s[Len(s)] = " " THEN rstrip(SubSeq(s, 1, Len(s) - 1))
    ELSE s
\* str.strip()
strip(s) == rstrip(lstrip(s))

\* str.startswith(EXPECT_PREFIX)
startswith(s, prefix) == s # <<>> /\ Head(s) = prefix

\* "e in a" on strings
contains(a, e) ==
    \E i \in 0..(Len(a) - Len(e)) : SubSeq(a, i + 1, i + Len(e)) = e

RECURSIVE extract_expectations(_)
\* extract_expectations, on the lines source.splitlines() gives.
extract_expectations(lines) ==
    IF lines = <<>> THEN <<>>
    ELSE LET line == strip(Head(lines))
         IN  (IF startswith(line, EXPECT_PREFIX)
              THEN <<strip(Tail(line))>> ELSE <<>>)
             \o extract_expectations(Tail(lines))

\* The locals of run_single_test; returned is None until it returns.
NoTest ==
    [expected |-> <<>>, actual |-> <<>>, missing |-> <<>>,
     unexpected |-> <<>>, returned |-> None]

\* The subsequence of s at the indices that satisfy keep.
Filter(s, keep(_)) ==
    LET F[i \in 0..Len(s)] ==
          IF i = 0 THEN <<>>
          ELSE IF keep(i) THEN Append(F[i - 1], s[i]) ELSE F[i - 1]
    IN  F[Len(s)]

\* expected = extract_expectations(source)
RunnerExtract ==
    /\ pc = "run_single_test"
    /\ test' = [test EXCEPT !.expected = extract_expectations(input.source)]
    /\ pc' = "runner_analyze"
    /\ UNCHANGED <<input, lexer, result, fnIdx, builderVars, analysisVars>>

\* result = analyze_source(source); actual = [str(e).strip() ...]: result
\* holds str(e) of each error.
RunnerAnalyze ==
    /\ pc = "runner_analyze"
    /\ result' = input.errors
    /\ test' = [test EXCEPT
                  !.actual = [i \in 1..Len(result') |-> strip(result'[i])]]
    /\ pc' = "runner_verdict"
    /\ UNCHANGED <<input, lexer, fnIdx, builderVars, analysisVars>>

\* "if not expected: ... return False"
RunnerTestError ==
    /\ pc = "runner_verdict"
    /\ test.expected = <<>>
    /\ test' = [test EXCEPT !.returned = False]
    /\ pc' = "runner_done"
    /\ UNCHANGED <<input, lexer, result, fnIdx, builderVars, analysisVars>>

\* "if expected == ["OK"]: ..."
RunnerExpectOK ==
    /\ pc = "runner_verdict"
    /\ test.expected = << <<"O", "K">> >>
    /\ test' = [test EXCEPT
                  !.returned = IF test.actual # <<>> THEN False ELSE True]
    /\ pc' = "runner_done"
    /\ UNCHANGED <<input, lexer, result, fnIdx, builderVars, analysisVars>>

\* The matching of expected and actual, to the end of run_single_test.
RunnerMatch ==
    /\ pc = "runner_verdict"
    /\ test.expected # <<>>
    /\ test.expected # << <<"O", "K">> >>
    /\ LET expected == test.expected
           actual == test.actual
           expected_norm == [i \in 1..Len(expected) |->
                               lower(strip(expected[i]))]
           actual_lower == [i \in 1..Len(actual) |-> lower(actual[i])]
           is_missing(i) ==
             ~\E n \in 1..Len(actual_lower) :
                contains(actual_lower[n], expected_norm[i])
           is_unexpected(i) ==
             ~\E n \in 1..Len(expected_norm) :
                contains(actual_lower[i], expected_norm[n])
           missing ==
             Filter([i \in 1..Len(expected) |-> strip(expected[i])], is_missing)
           unexpected == Filter(actual, is_unexpected)
       IN  test' = [test EXCEPT
                      !.missing = missing,
                      !.unexpected = unexpected,
                      !.returned = IF missing # <<>> \/ unexpected # <<>>
                                   THEN False ELSE True]
    /\ pc' = "runner_done"
    /\ UNCHANGED <<input, lexer, result, fnIdx, builderVars, analysisVars>>

run_single_test ==
    \/ RunnerExtract
    \/ RunnerAnalyze
    \/ RunnerTestError
    \/ RunnerExpectOK
    \/ RunnerMatch

\* ------------------------------------------------------------------------
\* lexer.py: Lexer
\* ------------------------------------------------------------------------

\* Lexer(source): the fields after __init__, and the list tokenize fills.
\* pos counts from 0 as in the code; source is a sequence of characters.
Lexer(source) ==
    [source |-> source, pos |-> 0, line |-> 1, column |-> 1, tokens |-> <<>>]

NUL == "NUL"   \* the character "\0" that _peek returns at the end

_is_at_end(l) == l.pos >= Len(l.source)

_peek(l) == IF _is_at_end(l) THEN NUL ELSE l.source[l.pos + 1]

_peek_next(l) ==
    IF l.pos + 1 >= Len(l.source) THEN NUL ELSE l.source[l.pos + 2]

_advance(l) ==
    LET ch == l.source[l.pos + 1]
    IN  [l EXCEPT !.pos = @ + 1,
                  !.line = IF ch = "\n" THEN @ + 1 ELSE @,
                  !.column = IF ch = "\n" THEN 1 ELSE @ + 1]

\* str.isalpha, str.isdigit and str.isalnum on the characters of the model.
_is_alpha(c) == c \in {"i", "f"}
_is_digit(c) == c \in {"1"}
_is_alnum(c) == _is_alpha(c) \/ _is_digit(c)

\* The lambdas handed to _consume_while, by the caller that writes them,
\* on the character c with the lexer l as self: that of
\* _scan_identifier_or_keyword, that of _scan_number and that of
\* _skip_whitespace_and_comments.
Holds(predicate, l, c) ==
    CASE predicate = "identifier" -> _is_alnum(c) \/ c = "_"
      [] predicate = "number" -> _is_digit(c)
      [] predicate = "comment" -> c # "\n" /\ _is_at_end(l)

\* _consume_while(predicate): the lexer after the loop, after[k] being the
\* lexer after at most k iterations; the lexeme is the text between the
\* two positions.
_consume_while(l, predicate) ==
    LET after[k \in 0..Len(l.source)] ==
            IF k = 0 THEN l
            ELSE IF ~_is_at_end(after[k - 1])
                    /\ Holds(predicate, after[k - 1], _peek(after[k - 1]))
                 THEN _advance(after[k - 1])
                 ELSE after[k - 1]
    IN  after[Len(l.source)]

Lexeme(l, m) == SubSeq(l.source, l.pos + 1, m.pos)

Token(type, value, line, column) ==
    [type |-> type, value |-> value, line |-> line, column |-> column]

\* KEYWORDS.get(lexeme, TokenType.IDENT), for the keywords the characters
\* of the model can spell.
KEYWORDS(lexeme) == IF lexeme = <<"i", "f">> THEN "IF" ELSE "IDENT"

\* int(num) of a string of digits.
RECURSIVE int(_)
int(num) ==
    IF num = <<>> THEN 0
    ELSE 10 * int(SubSeq(num, 1, Len(num) - 1)) + 1

\* The scanners and _next_token return the token and leave the lexer
\* advanced: [lexer, token]; token None stands for raise LexerError.
_scan_identifier_or_keyword(l) ==
    LET m == _consume_while(l, "identifier")
    IN  [lexer |-> m,
         token |-> Token(KEYWORDS(Lexeme(l, m)), Lexeme(l, m),
                         l.line, l.column)]

_scan_number(l) ==
    LET m == _consume_while(l, "number")
    IN  [lexer |-> m,
         token |-> Token("NUMBER", int(Lexeme(l, m)), l.line, l.column)]

_next_token(l) ==
    LET ch == _peek(l)
        nt == <<ch, _peek_next(l)>>
    IN  IF _is_alpha(ch) \/ ch = "_" THEN _scan_identifier_or_keyword(l)
        ELSE IF _is_digit(ch) THEN _scan_number(l)
        ELSE IF nt = <<"=", "=">>
        THEN [lexer |-> _advance(_advance(l)),
              token |-> Token("EQEQ", nt, l.line, l.column)]
        ELSE IF ch = "/"
        THEN [lexer |-> _advance(l),
              token |-> Token("SLASH", <<ch>>, l.line, l.column)]
        ELSE IF ch = "="
        THEN [lexer |-> _advance(l),
              token |-> Token("EQ", <<ch>>, l.line, l.column)]
        ELSE [lexer |-> l, token |-> None]

\* tokenize, at the test of its while loop: the loop goes on into
\* _skip_whitespace_and_comments, or ends and EOF is appended.
tokenize ==
    /\ pc = "tokenize"
    /\ IF _is_at_end(lexer)
       THEN /\ lexer' = [lexer EXCEPT !.tokens =
                   Append(@, Token("EOF", None, lexer.line, lexer.column))]
            /\ pc' = "tokenized"
       ELSE /\ pc' = "_skip_whitespace_and_comments"
            /\ UNCHANGED lexer
    /\ UNCHANGED <<input, test, result, fnIdx, builderVars, analysisVars>>

\* One iteration of the loop of _skip_whitespace_and_comments: a
\* whitespace character is passed, a comment goes to _consume_while, and
\* anything else (or the end of the source) ends the loop.
_skip_whitespace_and_comments ==
    /\ pc = "_skip_whitespace_and_comments"
    /\ IF _is_at_end(lexer)
       THEN /\ pc' = "_next_token"
            /\ UNCHANGED lexer
       ELSE IF _peek(lexer) \in {" ", "\t", "\r", "\n"}
       THEN /\ lexer' = _advance(lexer)
            /\ UNCHANGED pc
       ELSE IF _peek(lexer) = "/" /\ _peek_next(lexer) = "/"
       THEN /\ pc' = "_consume_while"
            /\ UNCHANGED lexer
       ELSE /\ pc' = "_next_token"
            /\ UNCHANGED lexer
    /\ UNCHANGED <<input, test, result, fnIdx, builderVars, analysisVars>>

\* _consume_while called on a comment; it returns into the loop of
\* _skip_whitespace_and_comments (continue).
ConsumeComment ==
    /\ pc = "_consume_while"
    /\ lexer' = _consume_while(lexer, "comment")
    /\ pc' = "_skip_whitespace_and_comments"
    /\ UNCHANGED <<input, test, result, fnIdx, builderVars, analysisVars>>

\* tokenize after _skip_whitespace_and_comments: break at the end of the
\* source, else the next token is appended or LexerError is raised.
NextToken ==
    /\ pc = "_next_token"
    /\ IF _is_at_end(lexer)
       THEN /\ lexer' = [lexer EXCEPT !.tokens =
                   Append(@, Token("EOF", None, lexer.line, lexer.column))]
            /\ pc' = "tokenized"
       ELSE LET r == _next_token(lexer)
            IN  IF r.token = None
                THEN /\ pc' = "LexerError"
                     /\ UNCHANGED lexer
                ELSE /\ lexer' = [r.lexer EXCEPT !.tokens =
                                     Append(@, r.token)]
                     /\ pc' = "tokenize"
    /\ UNCHANGED <<input, test, result, fnIdx, builderVars, analysisVars>>

NextLexer ==
    \/ tokenize
    \/ _skip_whitespace_and_comments
    \/ ConsumeComment
    \/ NextToken

\* ------------------------------------------------------------------------
\* Initial states
\* ------------------------------------------------------------------------

\* analyze_source(source) is called: nothing is built yet.
InitOn(inputs) ==
    /\ input \in inputs
    /\ pc = "lexing"
    /\ result = <<>>
    /\ fnIdx = 0
    /\ cfg = ControlFlowGraph
    /\ bb = <<>>
    /\ edges = <<>>
    /\ block_id = 0
    /\ stack = <<>>
    /\ current = 0
    /\ da = CFGDefiniteAssignmentAnalyzer(<<>>)
    /\ ds = CFGDeadStoreAnalyzer
    /\ za = CFGZeroAnalysis
    /\ test = NoTest
    /\ lexer = Lexer(<<>>)

\* The loop of analyze_source is at the only function of a source that
\* lexes and parses; result holds what the loop adds to it.
InitFn(fns) ==
    /\ input \in { [lexer |-> "tokens", parser |-> "Program",
                    functions |-> <<f>>] : f \in fns }
    /\ pc = "build_start"
    /\ result = <<>>
    /\ fnIdx = 1
    /\ cfg = ControlFlowGraph
    /\ bb = <<>>
    /\ edges = <<>>
    /\ block_id = 0
    /\ stack = <<>>
    /\ current = 0
    /\ da = CFGDefiniteAssignmentAnalyzer(<<>>)
    /\ ds = CFGDeadStoreAnalyzer
    /\ za = CFGZeroAnalysis
    /\ test = NoTest
    /\ lexer = Lexer(<<>>)

Int0 == Literal("int", 0)
Int1 == Literal("int", 1)
X == VarExpr("x")
LitTrue == Literal("bool", 1)

\* Every condition is the variable.
CondX == [IfStmt |-> {X}, WhileStmt |-> {X}]

Fns(bodies) == { FunctionDef("f", <<>>, "int", body) : body \in bodies }
\* The same functions with the variable of the bodies as their parameter.
ParamFns(bodies) ==
    { FunctionDef("f", <<Param("int", "x")>>, "int", body) : body \in bodies }

\* The families of function bodies, each of at most n statement nodes.
\* Control-flow shapes: one simple statement, one return, one condition.
ShapeSimple == {PrintStmt(Int1), ReturnStmt(Int1)}
ShapeBodies(n) == Bodies(ShapeSimple, CondX, TRUE, n)

\* The same, and the bodies with one more simple statement at the end
\* (a statement after an if whose arms both return).
ReachBodies(n) ==
    { Block(body.statements \o tail) :
        body \in ShapeBodies(n),
        tail \in {<<>>} \cup { <<s>> : s \in ShapeSimple } }

\* Declarations, writes and reads of one variable.
DASimple ==
    {VarDecl("int", "x", None), VarDecl("int", "x", Int1), Assign("x", Int1), PrintStmt(X),
     ReturnStmt(X)}
DABodies(n) == Bodies(DASimple, CondX, TRUE, n)

\* A write and a return of one variable, which the conditions read, with
\* or without its declaration at the start of the body.
FixSimple == {Assign("x", Int1), ReturnStmt(X)}
FixBodies(n) ==
    { Block(decl \o body.statements) :
        decl \in {<<>>, <<VarDecl("int", "x", None)>>},
        body \in Bodies(FixSimple, CondX, TRUE, n) }

\* Writes and reads of one variable; a while reads it in its condition, an
\* if does not.
DSSimple ==
    {VarDecl("int", "x", Int1), Assign("x", Int1), PrintStmt(X), ReturnStmt(X)}
DSBodies(n) ==
    Bodies(DSSimple, [IfStmt |-> {LitTrue}, WhileStmt |-> {X}], TRUE, n)

\* Divisions by a variable, by a literal, by a call and by a sum.
ZeroSimple ==
    {Assign("x", Int0), Assign("x", Int1),
     PrintStmt(BinaryExpr(Int1, "/", X)),
     PrintStmt(BinaryExpr(Int1, "/", Int0)),
     ReturnStmt(BinaryExpr(Int1, "/", CallExpr("f", <<X>>))),
     VarDecl("int", "y", BinaryExpr(Int1, "/", BinaryExpr(X, "+", Int1)))}
ZeroBodies(n) == Bodies(ZeroSimple, CondX, TRUE, n)

\* Writes of each kind of expression to a variable, declarations with and
\* without an initializer, and statements that write nothing.
LitFalse == Literal("bool", 0)
EvalSimple ==
    {Assign("x", Int0), Assign("x", Literal("int", 2)),
     Assign("x", LitTrue), Assign("x", LitFalse),
     Assign("x", VarExpr("y")),
     Assign("x", UnaryExpr("-", Int1)),
     Assign("x", BinaryExpr(Int1, "+", Int1)),
     Assign("x", CallExpr("f", <<>>)),
     VarDecl("int", "y", X), VarDecl("int", "y", None),
     PrintStmt(X), ReturnStmt(X)}
EvalBodies(n) ==
    Bodies(EvalSimple, [IfStmt |-> {LitTrue}, WhileStmt |-> {LitTrue}], TRUE, n)

\* Divisions by a variable in each kind of statement and in the conditions
\* of if and while statements.
DivCond == BinaryExpr(BinaryExpr(Int1, "/", X), ">", Int0)
CondSimple ==
    {Assign("x", Int0), Assign("x", Int1),
     Assign("y", BinaryExpr(Int1, "/", X)),
     VarDecl("int", "y", BinaryExpr(Int1, "/", X)),
     PrintStmt(BinaryExpr(Int1, "/", X)),
     ReturnStmt(BinaryExpr(Int1, "/", X))}
CondBodies(n) ==
    Bodies(CondSimple, [IfStmt |-> {X, DivCond}, WhileStmt |-> {DivCond}],
           TRUE, n)

\* Loops whose condition tests the variable their body writes.
LoopSimple == {Assign("x", Int0), ReturnStmt(X)}
LoopBodies(n) ==
    Bodies(LoopSimple,
           [IfStmt |-> {X}, WhileStmt |-> {X, UnaryExpr("!", X)}], TRUE, n)

\* Divisions by a variable and by a literal under conditions that test the
\* variable, and loops whose condition does not.
NotX == UnaryExpr("!", X)
RefineSimple ==
    {Assign("x", Int0),
     PrintStmt(BinaryExpr(Int1, "/", X)),
     PrintStmt(BinaryExpr(Int1, "/", Literal("int", 2))),
     ReturnStmt(Int0)}
RefineBodies(n) ==
    Bodies(RefineSimple, [IfStmt |-> {X, NotX}, WhileStmt |-> {LitTrue}],
           TRUE, n)

\* The sources of the pipeline: one that does not lex, one the lexer does
\* not return from, one that does not parse, and the programs of at most
\* n functions (MaxFns in Init).
MaxFns == 2

PipelineBodies ==
    { <<ReturnStmt(Int1)>>,
      <<PrintStmt(X)>>,
      <<WhileStmt(LitTrue,
          Block(<<IfStmt(LitTrue,
                         Block(<<Block(<<PrintStmt(Int1)>>)>>),
                         Block(<<ReturnStmt(Int1)>>))>>)),
        ReturnStmt(Int1),
        PrintStmt(Int1)>> }

PipelineFns ==
    { FunctionDef(name, params, return_type, Block(body)) :
        name \in {"main", "f"},
        params \in {<<>>, <<Param("int", "x")>>},
        return_type \in {"int", "bool"},
        body \in PipelineBodies }

RECURSIVE SeqsUpTo(_, _)
\* The sequences over S of length at most n.
SeqsUpTo(S, n) ==
    IF n = 0 THEN {<<>>}
    ELSE LET shorter == SeqsUpTo(S, n - 1)
         IN  shorter \cup { Append(q, e) : q \in shorter, e \in S }

PipelineInputs(n) ==
    { [lexer |-> "LexerError", parser |-> "Program", functions |-> <<>>],
      [lexer |-> "loops", parser |-> "Program", functions |-> <<>>],
      [lexer |-> "tokens", parser |-> "ParseError", functions |-> <<>>] }
    \cup
    { [lexer |-> "tokens", parser |-> "Program", functions |-> fns] :
        fns \in SeqsUpTo(PipelineFns, n) }

\* The test files: lines with and without a directive, over the letters of
\* "OK", and what analyze_source reports on the file.
MaxLines == 2

TestLines ==
    {<<"K">>,
     <<"K", EXPECT_PREFIX, "O", "K">>,
     <<" ", EXPECT_PREFIX, " ", "O", "K">>,
     <<EXPECT_PREFIX, "o", "k", " ">>,
     <<EXPECT_PREFIX, " ", "K">>,
     <<EXPECT_PREFIX>>}
TestErrors == {<<"O", "K">>, <<"o", "k", " ">>, <<"K">>, <<"O">>}
TestFiles(n) ==
    { [source |-> source, errors |-> errors] :
        source \in SeqsUpTo(TestLines, n), errors \in SeqsUpTo(TestErrors, n) }

\* run_single_test(path) is called.
InitRunner ==
    /\ input \in TestFiles(MaxLines)
    /\ pc = "run_single_test"
    /\ result = <<>>
    /\ fnIdx = 0
    /\ cfg = ControlFlowGraph
    /\ bb = <<>>
    /\ edges = <<>>
    /\ block_id = 0
    /\ stack = <<>>
    /\ current = 0
    /\ da = CFGDefiniteAssignmentAnalyzer(<<>>)
    /\ ds = CFGDeadStoreAnalyzer
    /\ za = CFGZeroAnalysis
    /\ test = NoTest
    /\ lexer = Lexer(<<>>)

\* The source texts: up to MaxChars characters, among them whitespace, the
\* slash of a comment, letters, a digit, an operator and a character no
\* token starts with.
MaxChars == 4

Chars == {" ", "\n", "/", "i", "f", "1", "=", "#"}
Sources(n) == SeqsUpTo(Chars, n)

\* Lexer(source).tokenize() is called.
InitLexer ==
    /\ input \in { [source |-> source] : source \in Sources(MaxChars) }
    /\ lexer = Lexer(input.source)
    /\ pc = "tokenize"
    /\ result = <<>>
    /\ fnIdx = 0
    /\ cfg = ControlFlowGraph
    /\ bb = <<>>
    /\ edges = <<>>
    /\ block_id = 0
    /\ stack = <<>>
    /\ current = 0
    /\ da = CFGDefiniteAssignmentAnalyzer(<<>>)
    /\ ds = CFGDeadStoreAnalyzer
    /\ za = CFGZeroAnalysis
    /\ test = NoTest

Init == InitOn(PipelineInputs(MaxFns))
InitShape == InitFn(Fns(ShapeBodies(MaxNodes)))
InitReach == InitFn(Fns(ReachBodies(MaxNodes)))
InitDA == InitFn(Fns(DABodies(MaxNodes)))
InitParams == InitFn(ParamFns(DABodies(MaxNodes)))
InitFix == InitFn(Fns(FixBodies(MaxNodes)))
InitDS == InitFn(Fns(DSBodies(MaxNodes)))
InitZero == InitFn(Fns(ZeroBodies(MaxNodes)))
InitRefine == InitFn(Fns(RefineBodies(MaxNodes)))
InitLoop == InitFn(Fns(LoopBodies(MaxNodes)))
InitCond == InitFn(Fns(CondBodies(MaxNodes)))
InitEval == InitFn(Fns(EvalBodies(MaxNodes)))

\* The stages of the loop body of analyze_source, in its order.
NextBuild == Builder
NextReach == NextBuild \/ ReturnAnalysis \/ UnreachableAnalysis
NextDA == NextReach \/ DAInitialize \/ DAFixedPoint \/ DACheckUses
NextDS == NextDA \/ DSInitialize \/ DSFixedPoint \/ DSCollect

\* analyze_source on a source.
Spec == Init /\ [][Next]_vars
\* CFGBuilder().build(fn.body) on a function.
SpecBuild == InitShape /\ [][NextBuild]_vars
\* The same, followed by the return and the unreachable-code analysis.
SpecReach == InitReach /\ [][NextReach]_vars
\* The loop body of analyze_source up to the definite-assignment analysis.
SpecDA == InitDA /\ [][NextDA]_vars
\* The same, on functions that take the variable as a parameter.
SpecParams == InitParams /\ [][NextDA]_vars
\* The same, where analyze() once called runs to its end: _initialize and
\* every round of the while loop of _fixed_point are taken.
SpecDAFair ==
    InitFix /\ [][NextDA]_vars /\ WF_vars(DAInitialize) /\ WF_vars(DAFixedPoint)

\* The loop body of analyze_source up to the dead-store analysis.
SpecDS == InitDS /\ [][NextDS]_vars
\* The same, where ds.analyze() once called runs to its end: _initialize
\* and every round of the while loop of _fixed_point are taken.
SpecDSFair ==
    InitFix /\ [][NextDS]_vars /\ WF_vars(DSInitialize) /\ WF_vars(DSFixedPoint)
\* The whole loop body of analyze_source, on sources with divisions.
SpecZero == InitZero /\ [][AnalyzeFn]_vars
\* The same, on sources whose conditions test the divisor.
SpecRefine == InitRefine /\ [][AnalyzeFn]_vars
\* The whole loop body of analyze_source, on sources that write each kind
\* of expression.
SpecEval == InitEval /\ [][AnalyzeFn]_vars
\* The whole loop body of analyze_source, on sources with divisions in
\* statements and in conditions.
SpecCond == InitCond /\ [][AnalyzeFn]_vars
\* The whole loop body of analyze_source on sources with loops, where
\* null.analyze() once called runs to its end: _initialize and every round
\* of its while loop are taken.
SpecZeroFair ==
    InitLoop /\ [][AnalyzeFn]_vars
      /\ WF_vars(ZeroInitialize) /\ WF_vars(ZeroFixedPoint)
\* tokenize on a source text; the interpreter keeps running the loops.
SpecLexer == InitLexer /\ [][NextLexer]_vars /\ WF_vars(NextLexer)
\* run_single_test on a test file.
SpecRunner == InitRunner /\ [][run_single_test]_vars

\* ------------------------------------------------------------------------
\* Properties of the CFG builder (SpecBuild)
\* ------------------------------------------------------------------------

\* CFGBuilder.build has returned the CFG.
Built == pc \notin {"build_start", "build"}

\* The blocks whose statements include one of class cls.
BlocksWith(cls) ==
    { b \in Range(cfg.blocks) :
        \E i \in 1..Len(bb[b].statements) : isinstance(bb[b].statements[i], cls) }

\* The edges created with source b.
EdgesFrom(b) == { e \in 1..Len(edges) : edges[e].src = b }

RECURSIVE ReachedFrom(_)
\* The blocks reached from those of S by any chain of created edges,
\* those of S included.
ReachedFrom(S) ==
    LET T == S \cup { edges[e].dst : e \in UNION { EdgesFrom(b) : b \in S } }
    IN  IF T = S THEN S ELSE ReachedFrom(T)

\* The number of indices of the sequence s that hold x.
Occurrences(s, x) == Cardinality({ i \in 1..Len(s) : s[i] = x })

\* C7: in the CFG build returns, every block that holds a ReturnStmt has
\* exactly one successor, and it is the exit block.
ReturnBlockGoesToExit ==
    Built =>
      \A b \in BlocksWith("ReturnStmt") : successors(Graph, b) = <<cfg.exit>>

\* An early return: a block other than entry holds the return, and another
\* block branches.
ReturnBlockWitness ==
    /\ Built
    /\ \E b \in BlocksWith("ReturnStmt") :
         b # cfg.entry /\ successors(Graph, b) = <<cfg.exit>>
    /\ \E b \in Range(cfg.blocks) : Len(bb[b].out_edges) = 2

\* The marker of the conditional split b: its last statement.
Marker(b) == bb[b].statements[Len(bb[b].statements)]

\* The conditional splits: the blocks that hold an IfStmt or a WhileStmt.
Splits == BlocksWith("IfStmt") \cup BlocksWith("WhileStmt")

\* C8: in the CFG build returns, every conditional split has exactly two
\* outgoing edges, both with the condition of its statement as cond, one
\* with assume_true True and one with assume_true False; every other edge
\* has cond None and assume_true None.
SplitEdges ==
    Built =>
      /\ \A b \in Splits :
           /\ Len(bb[b].out_edges) = 2
           /\ Cardinality(EdgesFrom(b)) = 2
           /\ \A e \in EdgesFrom(b) : edges[e].cond = Marker(b).condition
           /\ \E e \in EdgesFrom(b) : edges[e].assume_true = True
           /\ \E e \in EdgesFrom(b) : edges[e].assume_true = False
      /\ \A e \in 1..Len(edges) :
           edges[e].src \notin Splits =>
             edges[e].cond = None /\ edges[e].assume_true = None

\* A CFG with the split of an if, the split of a while and an edge that
\* is not conditional.
SplitEdgesWitness ==
    /\ Built
    /\ BlocksWith("IfStmt") # {}
    /\ BlocksWith("WhileStmt") # {}
    /\ \E e \in 1..Len(edges) :
         edges[e].src \notin Splits /\ edges[e].cond = None

\* Some chain of at least one edge leads from block b back to b.
OnCycle(b) == b \in ReachedFrom({ edges[e].dst : e \in EdgesFrom(b) })

\* The while statements in the CFG, each with its cond_block.
Loops ==
    { <<b, Marker(b)>> : b \in BlocksWith("WhileStmt") }

RECURSIVE CanComplete(_)
\* Some path through the statement list reaches its end without a return.
CanComplete(statements) ==
    \A i \in 1..Len(statements) :
      LET s == statements[i]
      IN  IF isinstance(s, "ReturnStmt") THEN FALSE
          ELSE IF isinstance(s, "IfStmt") /\ s.else_body # None
          THEN CanComplete(s.then_body.statements)
               \/ CanComplete(s.else_body.statements)
          ELSE IF isinstance(s, "Block") THEN CanComplete(s.statements)
          ELSE TRUE

EdgeListsConsistent ==
    /\ \A e \in 1..Len(edges) :
         /\ edges[e].src \in Range(cfg.blocks)
         /\ edges[e].dst \in Range(cfg.blocks)
         /\ \A b \in 1..Len(bb) :
              /\ Occurrences(bb[b].out_edges, e)
                   = IF b = edges[e].src THEN 1 ELSE 0
              /\ Occurrences(bb[b].in_edges, e)
                   = IF b = edges[e].dst THEN 1 ELSE 0
    /\ \A a, b \in 1..Len(bb) :
         Occurrences(successors(Graph, a), b)
           = Occurrences(predecessors(Graph, b), a)

\* The builder is inside a statement, with a block that has two
\* predecessors and a block that has two successors.
EdgeListsWitness ==
    /\ pc = "build"
    /\ Len(stack) > 1
    /\ \E b \in Range(cfg.blocks) : Len(bb[b].in_edges) = 2
    /\ \E b \in Range(cfg.blocks) : Len(bb[b].out_edges) = 2

\* ------------------------------------------------------------------------
\* Properties of the return and the unreachable-code analysis (SpecReach)
\* ------------------------------------------------------------------------

\* The blocks whose last statement is a ReturnStmt.
ReturnBlocks ==
    { b \in Range(cfg.blocks) :
        /\ bb[b].statements # <<>>
        /\ isinstance(Marker(b), "ReturnStmt") }

RECURSIVE ReachedAvoidingReturns(_)
\* The blocks reached from those of S by chains of edges that leave no
\* return block, those of S included.
ReachedAvoidingReturns(S) ==
    LET T == S \cup { edges[e].dst :
                        e \in UNION { EdgesFrom(b) : b \in S \ ReturnBlocks } }
    IN  IF T = S THEN S ELSE ReachedAvoidingReturns(T)

\* Some path from entry to exit passes through no return block.
PathAvoidingReturns == cfg.exit \in ReachedAvoidingReturns({cfg.entry})

\* The diagnostic of the return analysis for the function at hand.
MayNotReturn ==
    SemanticError(<<"Function '", fn.name,
                    "' may not return a value on all paths">>, FnNode(fnIdx))

\* The return analysis of the function at hand is done.
ReturnAnalysed == pc \notin {"build_start", "build", "return_analysis"}

\* C4: function_always_returns() is False exactly when some path from
\* entry to exit passes through no block whose last statement is a
\* ReturnStmt; the pipeline then adds exactly one "may not return a value
\* on all paths" diagnostic on the FunctionDef, and none otherwise.
AlwaysReturns ==
    ReturnAnalysed =>
      /\ function_always_returns(Graph) = ~PathAvoidingReturns
      /\ Occurrences(result, MayNotReturn)
           = IF PathAvoidingReturns THEN 1 ELSE 0

\* The body is "if (x) { return 1; }": one return block, a path around it
\* and one diagnostic.
AlwaysReturnsWitness ==
    /\ ReturnAnalysed
    /\ fn.body.statements = <<IfStmt(X, Block(<<ReturnStmt(Int1)>>), None)>>
    /\ ReturnBlocks # {}
    /\ PathAvoidingReturns
    /\ Occurrences(result, MayNotReturn) = 1

\* The unreachable-code analysis of the function at hand is done.
UnreachableAnalysed ==
    pc \notin {"build_start", "build", "return_analysis", "unreachable"}

\* The blocks no chain of edges reaches from entry.
Unreached == Range(cfg.blocks) \ ReachedFrom({cfg.entry})

\* C5: the unreachable-code analysis adds exactly one "Unreachable code"
\* diagnostic on every statement of a block that no chain of edges reaches
\* from entry and none on a statement of a block one reaches;
\* unreachable_blocks() is the set of all blocks less those reached.
UnreachableCode ==
    /\ Built => unreachable_blocks(Graph) = Unreached
    /\ UnreachableAnalysed =>
         \A b \in Range(cfg.blocks) : \A i \in 1..Len(bb[b].statements) :
           Occurrences(result, SemanticError(<<"Unreachable code">>,
                                             StmtNode(fnIdx, b, i)))
             = IF b \in Unreached THEN 1 ELSE 0

\* A statement after an if whose arms both return: its block is not
\* reached and it has its diagnostic, a statement of an arm has none.
UnreachableCodeWitness ==
    /\ UnreachableAnalysed
    /\ \E b \in Unreached :
         /\ bb[b].statements # <<>>
         /\ Occurrences(result, SemanticError(<<"Unreachable code">>,
                                              StmtNode(fnIdx, b, 1))) = 1
    /\ \E b \in ReachedFrom({cfg.entry}) \ {cfg.entry} :
         bb[b].statements # <<>>

\* ------------------------------------------------------------------------
\* Properties of the definite-assignment analysis (SpecDA)
\* ------------------------------------------------------------------------

\* analyze() and check_uses() of the function at hand are done, and
\* da.errors is in result.
UsesChecked ==
    pc \in {"ds_analyze", "ds_fixed_point", "ds_collect", "zero_analyze",
            "zero_fixed_point", "zero_check"}

\* Statement s writes x: an Assign to x, or a VarDecl of x with an
\* initializer.
Writes(s, x) ==
    \/ isinstance(s, "Assign") /\ s.name = x
    \/ isinstance(s, "VarDecl") /\ s.name = x /\ s.value # None

\* Some of the statements of block b before the i-th writes x.
WrittenBefore(b, i, x) ==
    \E j \in 1..(i - 1) : Writes(bb[b].statements[j], x)

RECURSIVE ReachedUnwritten(_, _)
\* The blocks reached from those of S by chains of edges that leave no
\* block that writes x, those of S included.
ReachedUnwritten(x, S) ==
    LET through == { b \in S : ~WrittenBefore(b, Len(bb[b].statements) + 1, x) }
        T == S \cup { edges[e].dst : e \in UNION { EdgesFrom(b) : b \in through } }
    IN  IF T = S THEN S ELSE ReachedUnwritten(x, T)

\* Some path from entry to statement i of block b has no write to x
\* before that statement.
PathWithoutWrite(x, b, i) ==
    /\ b \in ReachedUnwritten(x, {cfg.entry})
    /\ ~WrittenBefore(b, i, x)

\* The names of the parameters of the function at hand.
ParamNames == { fn.params[i].name : i \in 1..Len(fn.params) }

\* C1: after analyze() and check_uses(), for every statement s of a block
\* reached from entry and every variable x that s reads and that is no
\* parameter, if some path from entry to s has no write to x before s, the
\* errors hold "Variable 'x' may be unassigned" on s.
UnassignedUseReported ==
    UsesChecked =>
      \A b \in ReachedFrom({cfg.entry}) : \A i \in 1..Len(bb[b].statements) :
        \A x \in vars_read_in_stmt(bb[b].statements[i]) \ ParamNames :
          PathWithoutWrite(x, b, i) =>
            \E n \in 1..Len(result) :
              result[n] = SemanticError(<<"Variable '", x,
                                          "' may be unassigned">>,
                                        StmtNode(fnIdx, b, i))

\* "if (x) { x = 1; } print(x);": the print is reached past the write and
\* around it, and has its error.
UnassignedUseWitness ==
    /\ UsesChecked
    /\ fn.body.statements =
         <<IfStmt(X, Block(<<Assign("x", Int1)>>), None), PrintStmt(X)>>
    /\ \E b \in Range(cfg.blocks) \ {cfg.entry} :
         /\ bb[b].statements = <<PrintStmt(X)>>
         /\ PathWithoutWrite("x", b, 1)
         /\ \E n \in 1..Len(result) :
              result[n] = SemanticError(<<"Variable '", "x",
                                          "' may be unassigned">>,
                                        StmtNode(fnIdx, b, 1))

\* ------------------------------------------------------------------------
\* Properties of the dead-store analysis (SpecDS)
\* ------------------------------------------------------------------------

\* ds.analyze() of the function at hand is done.
StoresCollected == pc \in {"zero_analyze", "zero_fixed_point", "zero_check"}

RECURSIVE FirstAccess(_, _, _)
\* What the statements from the i-th on do to x first: a statement that
\* reads x reads it before it writes.
FirstAccess(statements, i, x) ==
    IF i > Len(statements) THEN "none"
    ELSE IF x \in vars_read_in_stmt(statements[i]) THEN "read"
    ELSE IF Writes(statements[i], x) THEN "write"
    ELSE FirstAccess(statements, i + 1, x)

\* x is read in a block that an edge from b leads to and that is in S.
ReadPast(b, x, S) == \E e \in EdgesFrom(b) : edges[e].dst \in S

RECURSIVE LiveIn(_, _)
\* The least set of blocks that holds S and every block at whose start x
\* is live: the block reads x before it writes it, or has no access to x
\* and a successor in the set.
LiveIn(x, S) ==
    LET T == S \cup { b \in Range(cfg.blocks) :
                        \/ FirstAccess(bb[b].statements, 1, x) = "read"
                        \/ /\ FirstAccess(bb[b].statements, 1, x) = "none"
                           /\ ReadPast(b, x, S) }
    IN  IF T = S THEN S ELSE LiveIn(x, T)

\* x is live after statement i of block b: some path from there reads x
\* before it writes x or ends.
LiveAfter(b, i, x) ==
    \/ FirstAccess(bb[b].statements, i + 1, x) = "read"
    \/ /\ FirstAccess(bb[b].statements, i + 1, x) = "none"
       /\ ReadPast(b, x, LiveIn(x, {}))

\* C2: after analyze(), a statement is in dead_stores if and only if it
\* writes a variable (an Assign, or a VarDecl with an initializer) that is
\* not live after it, liveness being the least solution of the equations
\* live-in = (live-out less written) and read, live-out = the live-in of
\* the successors.
DeadStoreIffNotLive ==
    StoresCollected =>
      \A b \in Range(cfg.blocks) : \A i \in 1..Len(bb[b].statements) :
        <<b, i>> \in Range(ds.dead_stores)
          <=> \E x \in Names : /\ Writes(bb[b].statements[i], x)
                               /\ ~LiveAfter(b, i, x)

\* "int x = 1; x = 1; return x;": only the declaration is a dead store.
DeadStoreWitness ==
    /\ StoresCollected
    /\ fn.body.statements =
         <<VarDecl("int", "x", Int1), Assign("x", Int1), ReturnStmt(X)>>
    /\ ds.dead_stores = << <<cfg.entry, 1>> >>
    /\ LiveAfter(cfg.entry, 2, "x")

\* ------------------------------------------------------------------------
\* Properties of the zero analysis (SpecZero)
\* ------------------------------------------------------------------------

\* null.analyze() of the function at hand is done and its errors are in
\* result.
ZeroChecked == pc = "for_fn" /\ fnIdx > 0

RECURSIVE Divisions(_, _)
\* The divisions in the expression expr, each with its place in the
\* statement, path being the place of expr.
Divisions(expr, path) ==
    IF isinstance(expr, "BinaryExpr")
    THEN (IF expr.op = "/" THEN {<<path, expr>>} ELSE {})
         \cup Divisions(expr.left, Append(path, "left"))
         \cup Divisions(expr.right, Append(path, "right"))
    ELSE IF isinstance(expr, "UnaryExpr")
    THEN Divisions(expr.right, Append(path, "right"))
    ELSE IF isinstance(expr, "CallExpr")
    THEN UNION { Divisions(expr.arguments[i], Append(path, ArgField[i])) :
                   i \in 1..Len(expr.arguments) }
    ELSE {}

\* The statements whose expression the diagnostic pass is to check.
HasValue(s) ==
    \/ isinstance(s, "Assign")
    \/ isinstance(s, "PrintStmt")
    \/ isinstance(s, "ReturnStmt") /\ s.value # None
    \/ isinstance(s, "VarDecl") /\ s.value # None

\* The abstract state before statement i of block b.
StateBefore(b, i) == za_apply_from(SubSeq(bb[b].statements, 1, i - 1), 1, za.In[b])

\* C3: after the zero analysis, every division of an analysed statement
\* whose right operand does not evaluate to NONZERO in the state before
\* the statement (a literal 0, a call and an arithmetic expression
\* included) has a "Possible division by zero" diagnostic.
EveryDivisionFlagged ==
    ZeroChecked =>
      \A b \in Range(cfg.blocks) : \A i \in 1..Len(bb[b].statements) :
        HasValue(bb[b].statements[i]) =>
          \A d \in Divisions(bb[b].statements[i].value, <<"value">>) :
            _eval_expr(d[2].right, StateBefore(b, i)) # NONZERO =>
              \E n \in 1..Len(result) :
                result[n] = SemanticError(<<"Possible division by zero">>,
                                          ExprNode(fnIdx, b, i, d[1]))

\* ------------------------------------------------------------------------
\* Properties of analyze_source (Spec)
\* ------------------------------------------------------------------------

\* The diagnostics the loop over the functions adds.
CFGMessages ==
    {<<"Unreachable code">>, <<"Dead store">>,
     <<"Possible division by zero">>}
    \cup { <<"Variable '", x, "' may be unassigned">> : x \in Names }
    \cup { <<"Function '", name, "' may not return a value on all paths">> :
             name \in {"main", "f"} }

\* The diagnostics in result that the CFG analyses attach: their node is a
\* function, or a statement or an expression of a block.
CFGDiagnostics ==
    { n \in 1..Len(result) :
        /\ result[n].message \in CFGMessages
        /\ DOMAIN result[n].node = DOMAIN ProgramNode }

\* C6: analyze_source ends by returning its result; on a lexer or a parser
\* failure the result is one diagnostic and no later stage has run; when
\* the program-semantic check returns an error no CFG is built and no
\* diagnostic of a CFG analysis is added; when it returns none, every
\* function has had its CFG analyses at the end, semantic errors or not.
StageGating ==
    /\ pc # "NameError"
    /\ (input.lexer = "LexerError" \/ input.parser = "ParseError") =>
         /\ pc \in {"lexing", "parsing", "done"}
         /\ pc = "done" => Len(result) = 1
         /\ fnIdx = 0 /\ bb = <<>>
    /\ check(input.functions) # <<>> =>
         fnIdx = 0 /\ bb = <<>> /\ CFGDiagnostics = {}
    /\ (pc = "done" /\ input.lexer = "tokens" /\ input.parser = "Program"
        /\ check(input.functions) = <<>>) =>
         fnIdx = Len(input.functions)

\* ------------------------------------------------------------------------
\* Entry and exit of the CFG (SpecBuild)
\* ------------------------------------------------------------------------

\* The blocks _new_block created with the prefix.
Named(prefix) == { b \in Range(cfg.blocks) : bb[b].name[1] = prefix }

\* The edges created with destination b.
EdgesTo(b) == { e \in 1..Len(edges) : edges[e].dst = b }

\* C11: the CFG build returns has exactly one entry block and one exit
\* block, cfg.entry and cfg.exit, distinct and both in cfg.blocks; no edge
\* leads to entry and no edge leaves exit.
EntryAndExit ==
    Built =>
      /\ Named("entry") = {cfg.entry}
      /\ Named("exit") = {cfg.exit}
      /\ cfg.entry # cfg.exit
      /\ Occurrences(cfg.blocks, cfg.entry) = 1
      /\ Occurrences(cfg.blocks, cfg.exit) = 1
      /\ bb[cfg.entry].in_edges = <<>> /\ EdgesTo(cfg.entry) = {}
      /\ bb[cfg.exit].out_edges = <<>> /\ EdgesFrom(cfg.exit) = {}

\* The body starts with a while loop whose body falls back to the
\* condition, and control reaches exit.
EntryAndExitWitness ==
    /\ Built
    /\ fn.body.statements # <<>>
    /\ isinstance(fn.body.statements[1], "WhileStmt")
    /\ \E l \in Loops :
         OnCycle(l[1]) /\ cfg.entry \in Range(predecessors(Graph, l[1]))
    /\ EdgesTo(cfg.exit) # {}
    /\ bb[cfg.entry].in_edges = <<>>

\* ------------------------------------------------------------------------
\* Block counts of the CFG (SpecBuild)
\* ------------------------------------------------------------------------

\* The kind of a statement: its class, an if with an else apart.
Kind(s) ==
    IF isinstance(s, "IfStmt") /\ s.else_body # None THEN "IfElse" ELSE s.k

\* The statement lists directly inside a statement.
Inner(s) ==
    IF isinstance(s, "IfStmt")
    THEN s.then_body.statements
         \o (IF s.else_body # None THEN s.else_body.statements ELSE <<>>)
    ELSE IF isinstance(s, "WhileStmt") THEN s.body.statements
    ELSE IF isinstance(s, "Block") THEN s.statements
    ELSE <<>>

RECURSIVE CountStmts(_, _)
\* The number of statements of the kind in the list, nested ones included.
CountStmts(statements, kind) ==
    IF statements = <<>> THEN 0
    ELSE (IF Kind(Head(statements)) = kind THEN 1 ELSE 0)
         + CountStmts(Inner(Head(statements)), kind)
         + CountStmts(Tail(statements), kind)

\* The number of statements of the kind in the body of the function.
InBody(kind) == CountStmts(fn.body.statements, kind)

\* The numbers of blocks with two successors and with two predecessors.
Branches == Cardinality({ b \in Range(cfg.blocks) : Len(bb[b].out_edges) = 2 })
Joins == Cardinality({ b \in Range(cfg.blocks) : Len(bb[b].in_edges) = 2 })

\* C12: for a body without return statements the CFG build returns has
\* 2 blocks, and 2 more for every if without else, 3 more for every if
\* with else and 3 more for every while.  A straight-line body gives 2
\* blocks and no block with more than one successor; a single if, with or
\* without else, gives exactly one block with two successors and exactly
\* one with two predecessors.
BlockCounts ==
    Built /\ InBody("ReturnStmt") = 0 =>
      /\ Len(cfg.blocks) = 2 + 2 * InBody("IfStmt") + 3 * InBody("IfElse")
                             + 3 * InBody("WhileStmt")
      /\ Cardinality(Range(cfg.blocks)) = Len(cfg.blocks)
      /\ InBody("IfStmt") + InBody("IfElse") + InBody("WhileStmt") = 0 =>
           /\ Len(cfg.blocks) = 2
           /\ \A b \in Range(cfg.blocks) : Len(bb[b].out_edges) <= 1
      /\ InBody("IfStmt") = 1 /\ InBody("IfElse") + InBody("WhileStmt") = 0 =>
           Len(cfg.blocks) = 4 /\ Branches = 1 /\ Joins = 1
      /\ InBody("IfElse") = 1 /\ InBody("IfStmt") + InBody("WhileStmt") = 0 =>
           Len(cfg.blocks) = 5 /\ Branches = 1 /\ Joins = 1
      /\ InBody("WhileStmt") = 1 /\ InBody("IfStmt") + InBody("IfElse") = 0 =>
           Len(cfg.blocks) = 5

\* A while loop that holds an if with an else, and no return: 8 blocks.
BlockCountsWitness ==
    /\ Built
    /\ InBody("ReturnStmt") = 0
    /\ InBody("WhileStmt") = 1 /\ InBody("IfElse") = 1
    /\ Len(cfg.blocks) = 8

\* ------------------------------------------------------------------------
\* Edge refinement in the zero analysis (SpecRefine)
\* ------------------------------------------------------------------------

\* The "Possible division by zero" diagnostic on the division at path in
\* statement i of block b is in result.
Flagged(b, i, path) ==
    \E n \in 1..Len(result) :
      result[n] = SemanticError(<<"Possible division by zero">>,
                                ExprNode(fnIdx, b, i, path))

\* The block the edge of polarity assume_true leads to from the split a.
Branch(a, assume_true) ==
    edges[CHOOSE e \in EdgesFrom(a) : edges[e].assume_true = assume_true].dst

\* The join_block of the if whose split is a: _build_if creates it right
\* after then_block.
JoinOf(a) == Branch(a, True) + 1

RECURSIVE ReachedWithin(_, _)
\* The blocks reached from those of S by chains of edges that enter no
\* block of stop, those of S included.
ReachedWithin(S, stop) ==
    LET T == S \cup ({ edges[e].dst : e \in UNION { EdgesFrom(b) : b \in S } }
                     \ stop)
    IN  IF T = S THEN S ELSE ReachedWithin(T, stop)

\* The blocks of the branch of polarity assume_true of the if whose split
\* is a: those control reaches from the start of the branch before it
\* leaves the if.
BranchBlocks(a, assume_true) ==
    ReachedWithin({Branch(a, assume_true)}, {JoinOf(a), cfg.exit})

\* No statement of the blocks assigns or declares variable y.
Unwritten(blocks, y) ==
    \A b \in blocks : \A i \in 1..Len(bb[b].statements) :
      LET s == bb[b].statements[i]
      IN  (isinstance(s, "Assign") \/ isinstance(s, "VarDecl")) => s.name # y

\* No edge that leaves one of the blocks refines variable y.
Untested(blocks, y) ==
    \A b \in blocks : \A e \in EdgesFrom(b) :
      edges[e].cond \notin {VarExpr(y), UnaryExpr("!", VarExpr(y))}

\* No division by variable y in a statement of the blocks is flagged.
NoneFlagged(blocks, y) ==
    \A b \in blocks : \A i \in 1..Len(bb[b].statements) :
      HasValue(bb[b].statements[i]) =>
        \A d \in Divisions(bb[b].statements[i].value, <<"value">>) :
          d[2].right = VarExpr(y) => ~Flagged(b, i, d[1])

\* C13: after the zero analysis no division by an integer literal other
\* than 0 is flagged; no division by y is flagged in the then-branch of an
\* if (y) that neither writes y nor tests it again, nor in the else-branch
\* of such an if (!y).
RefinedDivisionUnflagged ==
    ZeroChecked =>
      /\ \A b \in Range(cfg.blocks) : \A i \in 1..Len(bb[b].statements) :
           HasValue(bb[b].statements[i]) =>
             \A d \in Divisions(bb[b].statements[i].value, <<"value">>) :
               (/\ isinstance(d[2].right, "Literal")
                /\ d[2].right.py = "int"
                /\ d[2].right.value # 0) => ~Flagged(b, i, d[1])
      /\ \A a \in BlocksWith("IfStmt") : \A y \in Names :
           /\ (/\ Marker(a).condition = VarExpr(y)
               /\ Unwritten(BranchBlocks(a, True), y)
               /\ Untested(BranchBlocks(a, True), y))
                => NoneFlagged(BranchBlocks(a, True), y)
           /\ (/\ Marker(a).condition = UnaryExpr("!", VarExpr(y))
               /\ Marker(a).else_body # None
               /\ Unwritten(BranchBlocks(a, False), y)
               /\ Untested(BranchBlocks(a, False), y))
                => NoneFlagged(BranchBlocks(a, False), y)

\* ------------------------------------------------------------------------
\* Definite assignment and the parameters (SpecDA)
\* ------------------------------------------------------------------------

\* The parameter lists the analyzer is constructed with.
ParamLists ==
    {<<>>, <<Param("int", "x")>>, <<Param("int", "y")>>,
     <<Param("int", "x"), Param("int", "y")>>}

\* The (variable, statement) pairs check_uses reports from the analyzer a.
Reported(a) ==
    { <<e.message[2], e.node>> :
        e \in UNION { Range(errors) : errors \in check_uses(Graph, a, fnIdx) } }

\* The analyzer is about to be constructed on the CFG of the function.
DAStarts == pc = "da_analyze"

\* C14: on the same CFG, when the parameters of one analyzer are among
\* those of another, every IN set of the fixed point of the first is
\* included in that of the second, and every (variable, statement) pair
\* the second reports is reported by the first.
DAMonotoneInParams ==
    DAStarts =>
      \A p, q \in ParamLists :
        LET a == da_analyze(Graph, p)
            b == da_analyze(Graph, q)
        IN  a.params \subseteq b.params =>
              /\ \A block \in Range(cfg.blocks) :
                   a.In[block] \subseteq b.In[block]
              /\ Reported(b) \subseteq Reported(a)

\* A CFG on which the parameter x makes an IN set larger and removes a
\* diagnostic, and leaves another diagnostic.
DAMonotoneWitness ==
    /\ DAStarts
    /\ LET a == da_analyze(Graph, <<>>)
           b == da_analyze(Graph, <<Param("int", "x")>>)
       IN  /\ \E block \in Range(cfg.blocks) \ {cfg.entry} :
                a.In[block] # b.In[block]
           /\ Reported(b) # {}
           /\ Reported(b) # Reported(a)

\* ------------------------------------------------------------------------
\* Dead stores and inserted uses (SpecDS)
\* ------------------------------------------------------------------------

\* The CFG of the source with the simple statement s inserted so that
\* _build_simple appends it as statement k of block b: the statements the
\* builder appended at k and later follow it.
InsertStmt(g, b, k, s) ==
    [g EXCEPT !.bb[b].statements =
                SubSeq(@, 1, k - 1) \o <<s>> \o SubSeq(@, k, Len(@))]

\* The places of block b a simple statement of the source can take after
\* statement i: up to the statement that ends the block (an if or a
\* return), or the end of the block.
PlacesAfter(b, i) ==
    LET n == Len(bb[b].statements)
    IN  IF Kind(bb[b].statements[n]) \in {"IfStmt", "IfElse", "ReturnStmt"}
        THEN (i + 1)..n
        ELSE (i + 1)..(n + 1)

\* The places k after the write of x at statement i of block b that come on
\* its straight-line path before the next write to x.
UsePlaces(b, i, x) ==
    { k \in PlacesAfter(b, i) :
        \A j \in (i + 1)..(k - 1) : x \notin vars_written_in_stmt(bb[b].statements[j]) }

\* C15: a write to x the analysis reports as a dead store is not reported
\* in the program that has a print(x) inserted after it, before the next
\* write to x on its straight-line path.
UseRevivesStore ==
    StoresCollected =>
      \A w \in Range(ds.dead_stores) :
        \A x \in vars_written_in_stmt(bb[w[1]].statements[w[2]]) :
          \A k \in UsePlaces(w[1], w[2], x) :
            w \notin Range(ds_analyze(InsertStmt(Graph, w[1], k,
                                                 PrintStmt(VarExpr(x)))))

\* A reported write followed in its block by another statement and then by
\* the next write to x: with print(x) before that write the first write is
\* no longer reported, the last one still is.
UseRevivesStoreWitness ==
    /\ StoresCollected
    /\ \E w \in Range(ds.dead_stores) :
         LET b == w[1]
             i == w[2]
             g == InsertStmt(Graph, b, i + 1, PrintStmt(X))
         IN  /\ Len(bb[b].statements) >= i + 1
             /\ "x" \in vars_written_in_stmt(bb[b].statements[i])
             /\ "x" \in vars_written_in_stmt(bb[b].statements[i + 1])
             /\ i + 1 \in UsePlaces(b, i, "x")
             /\ w \notin Range(ds_analyze(g))
             /\ ds_analyze(g) # <<>>

\* ------------------------------------------------------------------------
\* Verdict of the diagnostic test runner (SpecRunner)
\* ------------------------------------------------------------------------

\* run_single_test has returned.
RunnerDone == pc = "runner_done"

\* The line holds a directive: its first characters other than blanks are
\* EXPECT_PREFIX.
IsDirective(line) ==
    \E i \in 1..Len(line) :
      line[i] = EXPECT_PREFIX /\ \A j \in 1..(i - 1) : line[j] = " "

\* The texts of the directives of the file: what follows EXPECT_PREFIX,
\* without the blanks around it.
Directives ==
    LET lines == SelectSeq(input.source, IsDirective)
    IN  [n \in 1..Len(lines) |-> strip(Tail(lstrip(lines[n])))]

\* The letters c and d are the same up to case.
SameLetter(c, d) ==
    \/ c = d
    \/ {c, d} = {"O", "o"}
    \/ {c, d} = {"K", "k"}

\* The text e is a case-insensitive substring of the string a.
Matches(e, a) ==
    \E i \in 0..(Len(a) - Len(e)) :
      \A j \in 1..Len(e) : SameLetter(e[j], a[i + j])

\* Every expected text matches a diagnostic, and every diagnostic is
\* matched by an expected text.
AllMatched ==
    /\ \A n \in 1..Len(Directives) :
         \E k \in 1..Len(input.errors) : Matches(Directives[n], input.errors[k])
    /\ \A k \in 1..Len(input.errors) :
         \E n \in 1..Len(Directives) : Matches(Directives[n], input.errors[k])

\* C16: run_single_test returns False on a file without a directive; on a
\* file whose only directive is OK it returns True exactly when the
\* analyzer produced no diagnostic; on any other file it returns True
\* exactly when every expected text is a case-insensitive substring of some
\* diagnostic and every diagnostic contains some expected text
\* case-insensitively.
RunnerVerdict ==
    RunnerDone =>
      /\ test.returned \in {True, False}
      /\ Directives = <<>> => test.returned = False
      /\ Directives = << <<"O", "K">> >> =>
           (test.returned = True <=> input.errors = <<>>)
      /\ Directives \notin {<<>>, << <<"O", "K">> >>} =>
           (test.returned = True <=> AllMatched)

\* A file with the directives "ok" and "K" passes on the diagnostics "OK"
\* and "K": the match of "ok" is by case only.
RunnerVerdictWitness ==
    /\ RunnerDone
    /\ Directives = << <<"o", "k">>, <<"K">> >>
    /\ input.errors = << <<"O", "K">>, <<"K">> >>
    /\ test.returned = True

\* ------------------------------------------------------------------------
\* Definite assignment on assigned variables (SpecDA)
\* ------------------------------------------------------------------------

\* The "may be unassigned" diagnostic of x on statement i of block b is in
\* result.
Unassigned(x, b, i) ==
    \E n \in 1..Len(result) :
      result[n] = SemanticError(<<"Variable '", x, "' may be unassigned">>,
                                StmtNode(fnIdx, b, i))

\* C17: after analyze() and check_uses(), a statement s of a block reached
\* from entry has no "Variable 'x' may be unassigned" diagnostic for a
\* variable x it reads when every path from entry to s writes x before s;
\* so for a variable initialized before a while loop and read in the
\* condition, in the body or after the loop.
NoFalseUnassigned ==
    UsesChecked =>
      \A b \in ReachedFrom({cfg.entry}) : \A i \in 1..Len(bb[b].statements) :
        \A x \in vars_read_in_stmt(bb[b].statements[i]) :
          ~PathWithoutWrite(x, b, i) => ~Unassigned(x, b, i)

\* ------------------------------------------------------------------------
\* Statements after a return (SpecReach)
\* ------------------------------------------------------------------------

RECURSIVE EndsInReturn(_)
\* The statement is a return, or a nested block whose last statement is.
EndsInReturn(s) ==
    \/ isinstance(s, "ReturnStmt")
    \/ /\ isinstance(s, "Block")
       /\ s.statements # <<>>
       /\ EndsInReturn(s.statements[Len(s.statements)])

\* The statements of the function body that follow a return or a nested
\* block ending in return, and hold no further statement.
AfterReturn ==
    { k \in 2..Len(fn.body.statements) :
        /\ Inner(fn.body.statements[k]) = <<>>
        /\ ~isinstance(fn.body.statements[k], "Block")
        /\ \E j \in 1..(k - 1) : EndsInReturn(fn.body.statements[j]) }

\* The statement is held by a block without predecessors other than entry
\* and reported as unreachable there.
ReportedInOrphan(s) ==
    \E b \in Range(cfg.blocks) \ {cfg.entry} :
      /\ predecessors(Graph, b) = <<>>
      /\ \E i \in 1..Len(bb[b].statements) :
           /\ bb[b].statements[i] = s
           /\ Occurrences(result, SemanticError(<<"Unreachable code">>,
                                                StmtNode(fnIdx, b, i))) = 1

\* C18: a statement of the function body written after a return of the same
\* list, or after a nested block that ends in return, is in a basic block
\* without predecessors once the CFG is built, and the unreachable-code
\* analysis reports it.
AfterReturnReported ==
    UnreachableAnalysed =>
      \A k \in AfterReturn : ReportedInOrphan(fn.body.statements[k])

\* ------------------------------------------------------------------------
\* The join_block of an if whose arms both return (SpecReach)
\* ------------------------------------------------------------------------

\* An if/else whose arms both end in return.
BothArmsReturn(s) ==
    /\ isinstance(s, "IfStmt")
    /\ s.else_body # None
    /\ EndsInReturn(s.then_body)
    /\ EndsInReturn(s.else_body)

\* The splits of the CFG whose if has two arms ending in return.
ClosedIfs == { a \in BlocksWith("IfStmt") : BothArmsReturn(Marker(a)) }

RECURSIVE Terminates(_)
\* _build_stmt returns None on the statement: no fall-through block.
Terminates(s) ==
    \/ isinstance(s, "ReturnStmt")
    \/ /\ isinstance(s, "Block")
       /\ \E i \in 1..Len(s.statements) : Terminates(s.statements[i])

\* The places of the function body with an if/else whose arms both end in
\* return, which the builder reaches, followed by a VarDecl, an Assign or a
\* PrintStmt.
FollowedIfs ==
    { k \in 1..(Len(fn.body.statements) - 1) :
        /\ BothArmsReturn(fn.body.statements[k])
        /\ \A j \in 1..(k - 1) : ~Terminates(fn.body.statements[j])
        /\ fn.body.statements[k + 1].k \in {"VarDecl", "Assign", "PrintStmt"} }

Preds(b) == Range(predecessors(Graph, b))

\* The variables every predecessor of b has in its OUT set.
MeetOfPreds(a, b) ==
    { x \in UNION { a.Out[p] : p \in Preds(b) } :
        \A p \in Preds(b) : x \in a.Out[p] }

\* The variables some statement of block b writes.
WrittenIn(b) ==
    { x \in Names : \E i \in 1..Len(bb[b].statements) : Writes(bb[b].statements[i], x) }

\* The names of the VarDecl statements of the blocks of the CFG.
Declared ==
    { x \in Names :
        \E b \in Range(cfg.blocks) : \E i \in 1..Len(bb[b].statements) :
          /\ isinstance(bb[b].statements[i], "VarDecl")
          /\ bb[b].statements[i].name = x }

\* The analyzer a satisfies the equations of the analysis on the CFG.
SolvesDA(a) ==
    \A b \in Range(cfg.blocks) :
      /\ Preds(b) # {} => a.In[b] = MeetOfPreds(a, b)
      /\ a.Out[b] = a.In[b] \cup WrittenIn(b)
      /\ b = cfg.entry => a.In[b] = a.params
      /\ b # cfg.entry /\ Preds(b) = {} => a.In[b] = Declared

\* The analysis of the function at hand has left the while loop of
\* _fixed_point.
DAStable == pc = "da_check_uses"

\* C20: on every CFG the builder produces, the rounds of _fixed_point come
\* to an end, and the analyzer they end with has IN[b] the intersection of
\* the OUT sets of the predecessors of every block b that has some, OUT[b]
\* the union of IN[b] and the variables b writes, IN[entry] the parameter
\* names, and IN[b] the declared variables for every other block without
\* predecessors; so also for every parameter list of ParamLists.
DAEndsAtFixedPoint ==
    DAStarts ~>
      /\ DAStable
      /\ SolvesDA(da)
      /\ \A p \in ParamLists : SolvesDA(da_analyze(Graph, p))

\* The iteration has ended on a loop whose cond_block has x in its IN set
\* only since the second round.
DAEndsWitness ==
    /\ DAStable
    /\ \E b \in BlocksWith("WhileStmt") :
         /\ OnCycle(b)
         /\ Cardinality(Preds(b)) = 2
         /\ da.In[b] = {"x"}
         /\ da_round(Graph, da_initialize(Graph, da), 1, FALSE).a.In[b] = {}

\* ------------------------------------------------------------------------
\* Termination and fixed point of the zero-state iteration (SpecZeroFair)
\* ------------------------------------------------------------------------

\* The variable a condition tests directly or under one "!", as a set:
\* empty if the condition has another shape.
Tested(cond) ==
    IF isinstance(cond, "VarExpr") THEN {cond.name}
    ELSE IF /\ isinstance(cond, "UnaryExpr")
            /\ cond.op = "!"
            /\ isinstance(cond.right, "VarExpr")
         THEN {cond.right.name}
    ELSE {}

\* The value the edge e asserts of the variable its condition tests.
Asserted(e) ==
    IF isinstance(edges[e].cond, "VarExpr") = (edges[e].assume_true = True)
    THEN NONZERO ELSE ZERO

\* The entry for name of the OUT state of the source of edge e after the
\* refinement of the edge.
RefinedOut(a, e, name) ==
    IF edges[e].cond # None /\ name \in Tested(edges[e].cond)
    THEN Asserted(e)
    ELSE a.Out[edges[e].src][name]

\* The pointwise join of the refined OUT states of the predecessors of b:
\* no key where none has one, the common value where all agree with a
\* missing key read as UNKNOWN, UNKNOWN elsewhere.
JoinOfPreds(a, b) ==
    [name \in Names |->
       LET entries == { RefinedOut(a, e, name) : e \in Range(bb[b].in_edges) }
           values == { IF v = ABSENT THEN UNKNOWN ELSE v : v \in entries }
       IN  IF entries = {ABSENT} THEN ABSENT
           ELSE IF Cardinality(values) = 1 THEN CHOOSE v \in values : TRUE
           ELSE UNKNOWN]

\* The analysis a satisfies the equations of the zero analysis on the CFG.
SolvesZero(a) ==
    \A b \in Range(cfg.blocks) :
      /\ a.In[b] = IF bb[b].in_edges = <<>> THEN [name \in Names |-> ABSENT]
                   ELSE JoinOfPreds(a, b)
      /\ a.Out[b] = _transfer_block(Graph, b, a.In[b])

\* null.analyze() is about to be called on the CFG of the function.
ZeroStarts == pc = "zero_analyze"
\* null.analyze() has left its while loop.
ZeroStable == pc = "zero_check"

\* C21: on every CFG the builder produces, the rounds of the while loop of
\* CFGZeroAnalysis.analyze come to an end, and then IN[b] of every block is
\* the pointwise join of the OUT states of its predecessors, each refined
\* on its edge (the empty map without predecessors), and OUT[b] is the
\* block transfer of IN[b].
ZeroEndsAtFixedPoint ==
    ZeroStarts ~> (ZeroStable /\ SolvesZero(za))

\* The iteration has ended on a loop whose condition tests x and whose
\* body writes x, after a second round that changed a state.
ZeroEndsWitness ==
    /\ ZeroStable
    /\ za_round(Graph, za_initialize(Graph, za), 1, FALSE).a # za
    /\ \E b \in BlocksWith("WhileStmt") :
         /\ OnCycle(b)
         /\ Tested(Marker(b).condition) = {"x"}
         /\ \E e \in Range(bb[b].in_edges) :
              /\ edges[e].src > b
              /\ za.Out[edges[e].src]["x"] = ZERO
              /\ za.In[edges[e].src]["x"] = NONZERO

\* ------------------------------------------------------------------------
\* Abstract evaluation and statement effects (SpecEval)
\* ------------------------------------------------------------------------

\* The value the expression is to have in the state: ZERO for the integer
\* literal 0, NONZERO for every other integer literal and for both boolean
\* literals, the state's value for a variable, UNKNOWN for the rest.
ValueOf(expr, state) ==
    IF isinstance(expr, "Literal")
    THEN (IF expr.py = "int" /\ expr.value = 0 THEN ZERO ELSE NONZERO)
    ELSE IF isinstance(expr, "VarExpr")
    THEN (IF state[expr.name] = ABSENT THEN UNKNOWN ELSE state[expr.name])
    ELSE UNKNOWN

\* The state the statement is to leave: the value of the expression for
\* the target of an Assign or initialized VarDecl, UNKNOWN for that of an
\* uninitialized VarDecl, every other entry as it was.
EffectOf(s, state) ==
    [name \in Names |->
       IF s.k \in {"Assign", "VarDecl"} /\ s.name = name
       THEN (IF s.value = None THEN UNKNOWN ELSE ValueOf(s.value, state))
       ELSE state[name]]

\* The abstract states of the diagnostic pass before and after statement i
\* of block b are related by EffectOf.
EffectAt(b, i) ==
    StateBefore(b, i + 1) = EffectOf(bb[b].statements[i], StateBefore(b, i))

\* C22: at the end of the zero analysis the running state after each
\* statement of each block is the state before it with the target of an
\* Assign or initialized VarDecl set to the value of the expression (ZERO
\* for the integer literal 0, NONZERO for every other integer literal and
\* for true and false, the state's value or UNKNOWN for a variable, UNKNOWN
\* for a call, a binary and a unary expression), the target of an
\* uninitialized VarDecl set to UNKNOWN, and nothing else changed; OUT[b]
\* is the state after the last statement.
EvalAsStated ==
    ZeroChecked =>
      \A b \in Range(cfg.blocks) :
        /\ \A i \in 1..Len(bb[b].statements) : EffectAt(b, i)
        /\ za.Out[b] = StateBefore(b, Len(bb[b].statements) + 1)

\* ------------------------------------------------------------------------
\* Edge refinement (SpecRefine)
\* ------------------------------------------------------------------------

\* Conditions of each shape: a variable, its negation, and others.
Conds ==
    {X, VarExpr("y"), NotX, UnaryExpr("!", VarExpr("y")),
     UnaryExpr("!", NotX), UnaryExpr("-", X), UnaryExpr("!", Int0),
     BinaryExpr(X, "==", Int0), BinaryExpr(X, "&&", VarExpr("y")),
     CallExpr("f", <<X>>), LitTrue, Int0}

\* The state refine_on_condition returns is the one stated: the variable a
\* condition x or !x names set by the polarity, every other entry kept.
RefinedAsStated(cond, assume_true, state) ==
    LET refined == refine_on_condition(cond, assume_true, state)
    IN  /\ isinstance(cond, "VarExpr") =>
             /\ refined[cond.name] = IF assume_true = True THEN NONZERO ELSE ZERO
             /\ \A name \in Names \ {cond.name} : refined[name] = state[name]
        /\ isinstance(cond, "UnaryExpr") /\ cond.op = "!"
             /\ isinstance(cond.right, "VarExpr") =>
             /\ refined[cond.right.name] =
                  IF assume_true = True THEN ZERO ELSE NONZERO
             /\ \A name \in Names \ {cond.right.name} :
                  refined[name] = state[name]
        /\ Tested(cond) = {} => refined = state

\* The blocks with a single incoming edge, which carries a condition.
Guarded ==
    { b \in Range(cfg.blocks) :
        Len(bb[b].in_edges) = 1 /\ edges[bb[b].in_edges[1]].cond # None }

\* C23: refine_on_condition maps x to NONZERO on the true edge and to ZERO
\* on the false edge of a condition x, to ZERO and NONZERO on those of a
\* condition !x, returns its input for every other condition, and keeps
\* the value of every other variable; so on every OUT state the zero
\* analysis ends with, and the IN state of a block whose single incoming
\* edge carries a condition is the OUT state of the source so refined.
RefinementAsStated ==
    ZeroChecked =>
      /\ \A b \in Range(cfg.blocks) : \A cond \in Conds :
           \A assume_true \in {True, False} :
             RefinedAsStated(cond, assume_true, za.Out[b])
      /\ \A b \in Guarded :
           LET e == bb[b].in_edges[1]
           IN  \A name \in Names : za.In[b][name] = RefinedOut(za, e, name)

\* The false edge of a condition !x leaves a block where x is ZERO and
\* enters one where x is NONZERO.
RefinementWitness ==
    /\ ZeroChecked
    /\ \E b \in Guarded :
         LET e == edges[bb[b].in_edges[1]]
         IN  /\ e.cond = NotX
             /\ e.assume_true = False
             /\ za.Out[e.src]["x"] = ZERO
             /\ za.In[b]["x"] = NONZERO

\* ------------------------------------------------------------------------
\* Edge refinement and the OUT dicts (SpecRefine)
\* ------------------------------------------------------------------------

\* A round of the while loop of analyze is about to start, or the loop has
\* ended.
ZeroRounds == pc \in {"zero_fixed_point", "zero_check"}

\* The heap after _compute_in(b) has every OUT dict as it was, and the
\* dict returned is a new one.
OutKept(r) ==
    /\ \A p \in Range(cfg.blocks) : r.heap[p] = za.Out[p]
    /\ r.ref \notin Range(cfg.blocks)

\* C24: in every round of the zero analysis, _compute_in of a block leaves
\* the dict OUT[p] of every block p as it was and returns a new dict; a
\* second _compute_in, of any block, on the heap the first left returns the
\* state computed from the unrefined OUT states and again leaves them.
RefinementKeepsOut ==
    ZeroRounds =>
      \A b \in Range(cfg.blocks) :
        LET first == compute_in_ref(Graph, OutHeap(Graph, za), b)
        IN  /\ OutKept(first)
            /\ first.heap[first.ref] = za_compute_in(Graph, za, b)
            /\ \A c \in Range(cfg.blocks) :
                 LET second == compute_in_ref(Graph, first.heap, c)
                 IN  /\ OutKept(second)
                     /\ second.heap[second.ref] = za_compute_in(Graph, za, c)

\* A block whose OUT state has x ZERO and whose two conditional edges enter
\* blocks with x NONZERO and x ZERO in turn.
RefinementKeepsOutWitness ==
    /\ pc = "zero_check"
    /\ \E s \in BlocksWith("IfStmt") :
         /\ Marker(s).condition = NotX
         /\ za.Out[s]["x"] = ZERO
         /\ za.In[Branch(s, True)]["x"] = ZERO
         /\ za.In[Branch(s, False)]["x"] = NONZERO
         /\ Len(bb[Branch(s, False)].in_edges) = 1

\* ------------------------------------------------------------------------
\* The diagnostic pass of the zero analysis (SpecCond)
\* ------------------------------------------------------------------------

\* The expression of a statement and its place in the statement: the value
\* of an Assign, VarDecl, PrintStmt or ReturnStmt, the condition of an if or
\* while marker; none for a VarDecl without initializer.
ExprOf(s) ==
    IF s.k \in {"IfStmt", "WhileStmt"} THEN {<<<<"condition">>, s.condition>>}
    ELSE IF s.k \in {"Assign", "VarDecl", "PrintStmt", "ReturnStmt"}
            /\ s.value # None
    THEN {<<<<"value">>, s.value>>}
    ELSE {}

\* The division at path of statement i of block b has a diagnostic.
DivisionReported(b, i, path) ==
    \E n \in 1..Len(result) :
      result[n] = SemanticError(<<"Possible division by zero">>,
                                ExprNode(fnIdx, b, i, path))

\* Of the divisions of the expression e of statement i of block b whose
\* right operand is a variable, exactly those are reported whose variable
\* is not NONZERO in the state before the statement.
DivisionsChecked(b, i, e) ==
    \A d \in Divisions(e[2], e[1]) :
      isinstance(d[2].right, "VarExpr") =>
        (DivisionReported(b, i, d[1])
           <=> get(StateBefore(b, i), d[2].right.name) # NONZERO)

\* C25: after the zero analysis, in every block and every statement, the
\* value of an Assign, a VarDecl, a PrintStmt or a ReturnStmt and the
\* condition of an if or while marker alike, a division whose right operand
\* is a variable has a "Possible division by zero" diagnostic exactly when
\* the variable is not NONZERO in the running state before the statement,
\* which starts from IN[b] and does not include the statement's own write.
ConditionsChecked ==
    ZeroChecked =>
      \A b \in Range(cfg.blocks) : \A i \in 1..Len(bb[b].statements) :
        \A e \in ExprOf(bb[b].statements[i]) : DivisionsChecked(b, i, e)

\* ------------------------------------------------------------------------
\* The join of states (SpecRefine)
\* ------------------------------------------------------------------------

\* The dicts from the names to ZeroState values.
States == [Names -> {ABSENT, ZERO, NONZERO, UNKNOWN}]

\* The lattice join of two values: v with itself, UNKNOWN otherwise.
Lub(v, w) == IF v = w THEN v ELSE UNKNOWN

\* _join_states is the pointwise join with a missing key read as UNKNOWN,
\* on the union of the key sets.
JoinPointwise ==
    \A a, b \in States : \A name \in Names :
      /\ keys(_join_states(a, b)) = keys(a) \cup keys(b)
      /\ name \in keys(a) \cup keys(b) =>
           _join_states(a, b)[name] = Lub(get(a, name), get(b, name))

\* The values join as stated.
JoinTable ==
    /\ Lub(ZERO, NONZERO) = UNKNOWN /\ Lub(NONZERO, ZERO) = UNKNOWN
    /\ \A v \in {ZERO, NONZERO, UNKNOWN} :
         Lub(v, v) = v /\ Lub(v, UNKNOWN) = UNKNOWN /\ Lub(UNKNOWN, v) = UNKNOWN

\* _join_states is commutative, associative and idempotent.
JoinLaws ==
    /\ \A a, b \in States : _join_states(a, b) = _join_states(b, a)
    /\ \A a, b, c \in States :
         _join_states(_join_states(a, b), c) = _join_states(a, _join_states(b, c))
    /\ \A a \in States : _join_states(a, a) = a

\* The blocks with two incoming edges.
Merges == { b \in Range(cfg.blocks) : Len(bb[b].in_edges) = 2 }

\* C26: _join_states is the pointwise join with a missing key read as
\* UNKNOWN (ZERO with NONZERO gives UNKNOWN, a value with itself gives the
\* value, a value with UNKNOWN gives UNKNOWN) on the union of the two key
\* sets, and is commutative, associative and idempotent; so the IN state
\* the zero analysis ends with at a block with two incoming edges is the
\* join of the two refined states in either order.
JoinIsLatticeJoin ==
    /\ JoinPointwise /\ JoinTable /\ JoinLaws
    /\ ZeroChecked =>
         \A b \in Merges :
           LET first == za_pred_state(Graph, za, b, 1)
               second == za_pred_state(Graph, za, b, 2)
           IN  /\ za.In[b] = _join_states(first, second)
               /\ za.In[b] = _join_states(second, first)

\* A block where a state with x ZERO and one with x NONZERO meet.
JoinWitness ==
    /\ ZeroChecked
    /\ \E b \in Merges :
         /\ za_pred_state(Graph, za, b, 1)["x"] = ZERO
         /\ za_pred_state(Graph, za, b, 2)["x"] = NONZERO
         /\ za.In[b]["x"] = UNKNOWN

\* ------------------------------------------------------------------------
\* C27: tokenize terminates and the comment loop advances
\* ------------------------------------------------------------------------

TokenizeStarts == pc = "tokenize" /\ lexer.pos = 0 /\ lexer.tokens = <<>>

\* tokenize has returned its list, which ends with EOF.
TokenizeReturned ==
    /\ pc = "tokenized"
    /\ lexer.tokens # <<>>
    /\ lexer.tokens[Len(lexer.tokens)].type = "EOF"

\* The scanner is at the two slashes of a comment.
AtComment == _peek(lexer) = "/" /\ _peek_next(lexer) = "/"

\* C27: tokenize terminates on every source text, by returning a token
\* list that ends with EOF or by raising LexerError, and the iteration of
\* the loop of _skip_whitespace_and_comments that meets a comment leaves
\* the position strictly greater than it found it.
TokenizeTerminates ==
    /\ TokenizeStarts ~> (TokenizeReturned \/ pc = "LexerError")
    /\ [][pc = "_consume_while" => lexer'.pos > lexer.pos]_vars

\* ------------------------------------------------------------------------
\* Reads of a parameter (SpecParams)
\* ------------------------------------------------------------------------

\* C28: after analyze() and check_uses(), no statement of any block,
\* reached from entry or not, inside a loop or not, has a "may be
\* unassigned" diagnostic for a parameter it reads, and the parameter is in
\* the set "assigned" of check_uses at that statement.
ParamsNeverReported ==
    UsesChecked =>
      \A b \in Range(cfg.blocks) : \A i \in 1..Len(bb[b].statements) :
        \A x \in vars_read_in_stmt(bb[b].statements[i]) \cap ParamNames :
          /\ ~Unassigned(x, b, i)
          /\ x \in da_assigned_at(Graph, da, b, i)

\* ------------------------------------------------------------------------
\* Shape of the blocks (SpecReach)
\* ------------------------------------------------------------------------

RECURSIVE SourceOrder(_)
\* The statements of the list in the order of the source text, the nested
\* ones after the statement that holds them; a Block is its statements.
SourceOrder(statements) ==
    IF statements = <<>> THEN <<>>
    ELSE (IF isinstance(Head(statements), "Block") THEN <<>>
          ELSE <<Head(statements)>>)
         \o SourceOrder(Inner(Head(statements)))
         \o SourceOrder(Tail(statements))

RECURSIVE InOrderOf(_, _)
\* The sequence s is t with some of its elements left out.
InOrderOf(s, t) ==
    IF s = <<>> THEN TRUE
    ELSE IF t = <<>> THEN FALSE
    ELSE IF Head(s) = Head(t) THEN InOrderOf(Tail(s), Tail(t))
    ELSE InOrderOf(s, Tail(t))

\* The statement is a control marker.
IsMarker(s) ==
    isinstance(s, "IfStmt") \/ isinstance(s, "WhileStmt")
      \/ isinstance(s, "ReturnStmt")

\* The last statement of block b is of class cls.
EndsWith(b, cls) ==
    bb[b].statements # <<>> /\ isinstance(Marker(b), cls)

\* C29: in the CFG build returns, the statements of every block are in the
\* order of the source, a control marker (IfStmt, WhileStmt, ReturnStmt) is
\* the last statement of its block, a while_cond block holds its WhileStmt
\* and nothing else, a block has two outgoing edges exactly when it ends
\* with an IfStmt or a WhileStmt, and a block holds a ReturnStmt exactly
\* when it ends with one.
BlockShape ==
    Built =>
      \A b \in Range(cfg.blocks) :
        /\ InOrderOf(bb[b].statements, SourceOrder(fn.body.statements))
        /\ \A i \in 1..Len(bb[b].statements) :
             IsMarker(bb[b].statements[i]) => i = Len(bb[b].statements)
        /\ b \in Named("while_cond") =>
             Len(bb[b].statements) = 1 /\ EndsWith(b, "WhileStmt")
        /\ EndsWith(b, "WhileStmt") => b \in Named("while_cond")
        /\ Len(bb[b].out_edges) = 2
             <=> (EndsWith(b, "IfStmt") \/ EndsWith(b, "WhileStmt"))
        /\ b \in BlocksWith("ReturnStmt") <=> EndsWith(b, "ReturnStmt")

\* A block holds a statement and then its IfStmt, a loop follows, and a
\* block ends with a return.
BlockShapeWitness ==
    /\ Built
    /\ \E b \in Range(cfg.blocks) :
         Len(bb[b].statements) = 2 /\ EndsWith(b, "IfStmt")
    /\ Named("while_cond") # {}
    /\ \E b \in Range(cfg.blocks) : EndsWith(b, "ReturnStmt")

\* ------------------------------------------------------------------------
\* The iteration of the dead-store analysis (SpecDSFair)
\* ------------------------------------------------------------------------

\* The blocks an edge from b leads to.
Succs(b) == { edges[e].dst : e \in EdgesFrom(b) }

\* Statement s reads x.
Reads(s, x) == x \in vars_read_in_stmt(s)

\* The result of walking the statements of block b in reverse from the set
\* out with live := (live minus written) union read: the variables some
\* statement reads with no write in an earlier statement of the block, and
\* those of out that no statement of the block writes.
LiveAtStart(b, out) ==
    { x \in Names :
        \/ \E i \in 1..Len(bb[b].statements) :
             Reads(bb[b].statements[i], x) /\ ~WrittenBefore(b, i, x)
        \/ x \in out /\ x \notin WrittenIn(b) }

\* The analyzer a satisfies the equations of the analysis on the CFG.
SolvesDS(a) ==
    /\ \A b \in Range(cfg.blocks) :
         /\ a.Out[b] = UNION { a.In[s] : s \in Succs(b) }
         /\ a.In[b] = LiveAtStart(b, a.Out[b])
    /\ a.Out[cfg.exit] = {}

RECURSIVE RoundGrows(_, _)
\* In the round of _fixed_point that starts from the analyzer a, from the
\* n-th block down, every set that is assigned includes the set it
\* replaces.
RoundGrows(a, n) ==
    \/ n = 0
    \/ LET b == cfg.blocks[n]
           new_out == ds_new_out(Graph, a, b)
           new_in == ds_compute_in(Graph, b, new_out)
       IN  /\ a.Out[b] \subseteq new_out
           /\ a.In[b] \subseteq new_in
           /\ \A updated \in {[a EXCEPT !.In[b] = new_in, !.Out[b] = new_out]} :
                RoundGrows(updated, n - 1)

\* ds.analyze() is about to be called on the CFG of the function.
DSStarts == pc = "ds_analyze"

\* The analysis has left the while loop of _fixed_point.
DSStable == pc = "ds_collect"

\* The iteration is in the while loop of _fixed_point.
DSIterates == pc = "ds_fixed_point"

\* C30: on every CFG the builder produces, the rounds of _fixed_point of
\* the dead-store analysis come to an end; the sets start empty and every
\* assignment of a round replaces IN[b] and OUT[b] by a set that includes
\* it; and the analyzer the rounds end with has OUT[b] the union of the IN
\* sets of the successors of b, IN[b] the reverse walk of the statements of
\* b from OUT[b], and OUT[exit] empty.
DSEndsAtFixedPoint ==
    /\ DSStarts ~> (DSStable /\ SolvesDS(ds))
    /\ [](DSIterates => RoundGrows(ds, Len(cfg.blocks)))
    /\ [][DSStarts =>
            \A b \in Range(cfg.blocks) : ds'.In[b] = {} /\ ds'.Out[b] = {}]_vars

\* The iteration has ended on a loop whose body has x live at its end only
\* since the second round.
DSEndsWitness ==
    /\ DSStable
    /\ \E b \in Named("while_body") :
         /\ ds.Out[b] = {"x"}
         /\ ds_round(Graph, ds_initialize(Graph, ds), Len(cfg.blocks),
                     FALSE).a.Out[b] = {}

====
